---- MODULE Spec2Model ----
(***************************************************************************)
(* Transaction coordination and compensation in the Appwrite functions:    *)
(*   atomicSignupFull           (src/unnamed/part_001, lines 43-447)       *)
(*   bookTicketAtomic           (src/src/bookTicketAtomic.js)              *)
(*   bookTicketAtomic_v2        (src/unnamed/part_001, lines 520-896)      *)
(* Every handler invocation is a process; one action is one backend call   *)
(* together with the local code that runs up to the next call.  The        *)
(* backend (object storage, document store, transaction contexts) is the   *)
(* shared state.  A backend call either takes effect or throws without     *)
(* effect; the kind of the thrown error is kept because the handlers       *)
(* branch on err.code and err.message.                                     *)
(***************************************************************************)
EXTENDS Integers, Sequences, FiniteSets, TLC

\* ---------------------------------------------------------------- bounds
InitTickets == 1       \* ticketsLeft before two concurrent bookings
DuoFaults == 1         \* calls that may throw while two invocations run together
SoloTickets == 2       \* ticketsLeft when invocations come one at a time
SoloFaults == 3        \* calls that may throw when invocations come one at a time

\* Handler invocations: two at most run against the same backend.
Procs == {1, 2}

VARIABLES
  files,         \* object storage: set of [bucket, id, by]
  users,         \* collection users: sequence of [id, email, by]
  tickets,       \* collection tickets: sequence of [id, quantity, by]
  transactions,  \* collection transactions: sequence of [id, paymentId, ticketId, by]
  orders,        \* collection orders: sequence of [id, ticketId, by]
  event,         \* the event document: [ticketsLeft, categories, ver]
  txns,          \* transaction contexts, one per invocation
  pc,            \* position of each invocation in its handler
  req,           \* parsed request body of each invocation
  loc,           \* local variables of each invocation
  resp,          \* the response passed to res.json
  log,           \* backend calls issued by each invocation, in order
  faults,        \* how many more backend calls may throw (or contexts expire)
  solo,          \* TRUE when a single invocation runs, with every kind of request
  group,         \* the group document of a like notification (collection groups)
  messages       \* collection chatMessages: ids of the messages of that group

vars == <<files, users, tickets, transactions, orders, event, txns,
          pc, req, loc, resp, log, faults, solo, group, messages>>

backend == <<files, users, tickets, transactions, orders, event, txns>>

Range(s) == {s[i] : i \in 1..Len(s)}

\* ------------------------------------------------------------- JS values
\* A JavaScript number as the handlers see it: NaN or an integer.
JsNaN == [nan |-> TRUE, n |-> 0]
JsInt(i) == [nan |-> FALSE, n |-> i]

\* parseInt(quantity) on the raw request field.
parseInt(raw) ==
  CASE raw = "abc" -> JsNaN
    [] raw = "missing" -> JsNaN
    [] raw = "-1" -> JsInt(-1)
    [] raw = "0" -> JsInt(0)
    [] raw = "1" -> JsInt(1)
    [] raw = "2" -> JsInt(2)
    [] raw = "11" -> JsInt(11)
    [] OTHER -> JsNaN

\* A comparison that lets a request for one ticket too many through.
JsLessOffByOne(a, b) == ~a.nan /\ ~b.nan /\ a.n + 1 < b.n

\* a < b in JavaScript: false as soon as one side is NaN.
JsLess(a, b) == ~a.nan /\ ~b.nan /\ a.n < b.n

\* Math.max(0, a - b)
JsMaxZeroDiff(a, b) ==
  IF a.nan \/ b.nan THEN JsNaN
  ELSE JsInt(IF a.n - b.n > 0 THEN a.n - b.n ELSE 0)

\* parseInt(doc.ticketsLeft) || 0 on the stored (stringified) count.
parseIntOrZero(v) == IF v.nan THEN JsInt(0) ELSE v

\* -------------------------------------------------------------- errors
ErrKinds == {"notfound", "conflict", "other"}

\* err.code of a thrown backend error.
ErrCode(k) ==
  CASE k = "notfound" -> "404"
    [] k = "conflict" -> "409"
    [] k = "other" -> "500"
    [] OTHER -> "undefined"

\* err.code === 404 || err.message?.includes('not found')
IsNotFound(k) == k = "notfound"

\* The outcomes of one backend call: it returns, or (while the fault budget
\* lasts) it throws an error of some kind.
Thrown == IF faults > 0 THEN ErrKinds ELSE {}

\* ------------------------------------------------------------- responses
NoTicket == [src |-> "none", n |-> 0]

RespBase ==
  [success |-> FALSE, code |-> "", existingUserId |-> "",
   existingTicketId |-> NoTicket, hasExistingTicketId |-> FALSE,
   hasRS |-> FALSE,
   rs |-> [transaction |-> FALSE, profilePicture |-> FALSE, qrCode |-> FALSE],
   cleanedUp |-> {}, trb |-> "absent"]

Fail(code) == [RespBase EXCEPT !.code = code]

\* One entry of the call log.
Call(op, on, tx, res) == [op |-> op, on |-> on, tx |-> tx, res |-> res]

\* -------------------------------------------------- transaction contexts
NoTxn == [state |-> "none", evRead |-> -1, reads |-> <<>>, ops |-> <<>>]

\* What a uniqueness read returns from the committed store.
Observe(kind, key) ==
  CASE kind = "userById" -> {u.id : u \in {x \in Range(users) : x.id = key}}
    [] kind = "userByEmail" -> {u.id : u \in {x \in Range(users) : x.email = key}}
    [] kind = "payment" ->
         {d.id : d \in {x \in Range(transactions) : x.paymentId = key}}
    [] kind = "ticketById" -> {t.id : t \in {x \in Range(tickets) : x.id = key}}
    [] OTHER -> {}

Exists(coll, id) ==
  CASE coll = "users" -> \E u \in Range(users) : u.id = id
    [] coll = "tickets" -> \E t \in Range(tickets) : t.id = id
    [] coll = "transactions" -> \E d \in Range(transactions) : d.id = id
    [] coll = "orders" -> \E o \in Range(orders) : o.id = id
    [] OTHER -> FALSE

\* A commit that detects colliding ids but not that what it read has changed.
CommitValidCreatesOnly(t) ==
  \A i \in 1..Len(t.ops) :
     t.ops[i].op = "create" => ~Exists(t.ops[i].coll, t.ops[i].id)

\* Conflict detection at commit: everything the context read is unchanged
\* and no staged create collides with a document that exists.
CommitValid(t) ==
  /\ t.evRead = -1 \/ t.evRead = event.ver
  /\ \A i \in 1..Len(t.reads) :
       Observe(t.reads[i].kind, t.reads[i].key) = t.reads[i].seen
  /\ \A i \in 1..Len(t.ops) :
       t.ops[i].op = "create" => ~Exists(t.ops[i].coll, t.ops[i].id)

StagedDocs(t, coll) ==
  LET idx == {i \in 1..Len(t.ops) : t.ops[i].op = "create" /\ t.ops[i].coll = coll}
      F[k \in 0..Len(t.ops)] ==
        IF k = 0 THEN <<>>
        ELSE IF k \in idx THEN Append(F[k - 1], t.ops[k].doc) ELSE F[k - 1]
  IN F[Len(t.ops)]

StagedEvent(t) ==
  LET idx == {i \in 1..Len(t.ops) : t.ops[i].op = "update" /\ t.ops[i].coll = "events"}
  IN IF idx = {} THEN event
     ELSE LET last == CHOOSE i \in idx : \A j \in idx : j <= i
          IN [ticketsLeft |-> t.ops[last].doc.ticketsLeft, fmt |-> event.fmt,
              categories |-> t.ops[last].doc.categories,
              ver |-> event.ver + 1,
              writers |-> event.writers \cup {t.ops[last].doc.by}]

\* ------------------------------------------------- process-local updates
Step(p, newpc, newloc, call) ==
  /\ UNCHANGED <<solo, group, messages>>
  /\ pc' = [pc EXCEPT ![p] = newpc]
  /\ loc' = [loc EXCEPT ![p] = newloc]
  /\ log' = [log EXCEPT ![p] = Append(@, call)]

Respond(p, r) == resp' = [resp EXCEPT ![p] = r]

Fault(out) == faults' = IF out = "ok" THEN faults ELSE faults - 1

\* TTL expiry: a context that is still open may expire at any moment.
Expire(p) ==
  /\ txns[p].state = "open"
  /\ faults > 0
  /\ txns' = [txns EXCEPT ![p].state = "expired"]
  /\ faults' = faults - 1
  /\ UNCHANGED <<files, users, tickets, transactions, orders, event,
                 pc, req, loc, resp, log, solo, group, messages>>

\* updateTransaction(id, false) as the backend answers it: a context that is
\* open (or whose commit was rejected) is discarded; one that is gone is
\* reported as not found.
RollbackLegit(t) == t.state \in {"open", "failed"}

\* An invocation starts at any time when invocations are concurrent; when
\* they come one at a time, the second one follows a successful first one.
Idle(p) == pc[p] = "idle" \/ (pc[p] = "off" /\ pc[1] = "done" /\ resp[1].success)

\* Which invocation tries the invalid requests as well as the valid ones.
Wide(p) == solo /\ p = 1

\* ================================================================ signup
UserIds == {"u1", "u2"}
KnownUser == [id |-> "u0", email |-> "b@x.io", by |-> 0]
Emails == {"a@x.io", "b@x.io"}
SignupFields == {"userId", "email", "name", "profilePicBase64", "qrCodeBase64", "phone"}

SignupReq(u, e, body, missing, emailOk, phoneOk) ==
  [handler |-> "signup", body |-> body, userId |-> u, email |-> e,
   missing |-> missing, emailOk |-> emailOk, phoneOk |-> phoneOk]

SignupRequests(p) ==
  {SignupReq(u, e, "ok", "none", TRUE, TRUE) : u \in UserIds, e \in Emails}
  \cup {SignupReq(KnownUser.id, "a@x.io", "ok", "none", TRUE, TRUE)}
  \cup (IF Wide(p)
          THEN {SignupReq("u1", "a@x.io", "ok", f, TRUE, TRUE) : f \in SignupFields}
               \cup {SignupReq("u1", "a@x.io", "malformed", "none", TRUE, TRUE),
                     SignupReq("u1", "a@x.io", "ok", "none", FALSE, TRUE),
                     SignupReq("u1", "a@x.io", "ok", "none", TRUE, FALSE)}
          ELSE {})

SignupLoc ==
  [txId |-> FALSE, pic |-> FALSE, qr |-> FALSE, err |-> "",
   clQr |-> FALSE, resPic |-> FALSE, resQr |-> FALSE, rbOk |-> FALSE,
   after |-> "", existing |-> ""]

\* Error code chosen by the top-level catch of atomicSignupFull.
SignupErrorCode(k) ==
  CASE k = "conflict" -> "CONFLICT_ERROR"
    [] k = "notfound" -> "NOT_FOUND_ERROR"
    [] OTHER -> "SIGNUP_ERROR"

\* The response built once cleanupUploadedFiles has returned to its caller.
SignupAfterCleanup(r, l) ==
  CASE l.after = "qrfail" ->
         [Fail("QR_CODE_UPLOAD_FAILED") EXCEPT !.cleanedUp = {"profilePicture"}]
    [] l.after = "dupUser" ->
         [Fail("DUPLICATE_USER") EXCEPT
            !.existingUserId = r.userId,
            !.cleanedUp = {"profilePicture", "qrCode", "transaction"}]
    [] l.after = "dupEmail" ->
         [Fail("DUPLICATE_EMAIL") EXCEPT
            !.existingUserId = l.existing,
            !.cleanedUp = {"profilePicture", "qrCode", "transaction"}]
    [] OTHER ->
         [Fail(SignupErrorCode(l.err)) EXCEPT
            !.hasRS = TRUE,
            !.rs = [transaction |-> l.rbOk, profilePicture |-> l.resPic,
                    qrCode |-> l.resQr],
            !.cleanedUp = (IF l.rbOk THEN {"transaction"} ELSE {})
                          \cup (IF l.resPic THEN {"profilePicture"} ELSE {})
                          \cup (IF l.resQr THEN {"qrCode"} ELSE {})]

\* cleanupUploadedFiles returning without a delete.
CleanupPcNone(hasPic, hasQr) == "done"

\* First call made by cleanupUploadedFiles(profilePicId, qrCodeId).
CleanupPc(hasPic, hasQr) ==
  IF hasPic THEN "cl_pic" ELSE IF hasQr THEN "cl_qr" ELSE "done"

\* Entry of the top-level catch: rollback if a context was created, then
\* cleanupUploadedFiles(uploadedProfilePicId, uploadedQRCodeId).
SignupCatchPc(l) == IF l.txId THEN "s_catchRb" ELSE CleanupPc(l.pic, l.qr)

SignupCatchLoc(l, k) == [l EXCEPT !.err = k, !.after = "catch", !.clQr = l.qr]

\* !userId || !email || !name || !profilePicBase64 || !qrCodeBase64 || !phone
SignupFieldsMissing(r) == r.missing # "none"

\* Parse and validate the request (no backend call).
SignupStart(p) ==
  /\ Idle(p)
  /\ \E r \in SignupRequests(p) :
       /\ req' = [req EXCEPT ![p] = r]
       /\ loc' = [loc EXCEPT ![p] = SignupLoc]
       /\ IF r.body = "malformed"
            THEN /\ pc' = [pc EXCEPT ![p] = "done"]
                 /\ Respond(p, SignupAfterCleanup(r, SignupCatchLoc(SignupLoc, "syntax")))
          ELSE IF SignupFieldsMissing(r)
            THEN /\ pc' = [pc EXCEPT ![p] = "done"]
                 /\ Respond(p, Fail("VALIDATION_ERROR"))
          ELSE IF ~r.emailOk
            THEN /\ pc' = [pc EXCEPT ![p] = "done"]
                 /\ Respond(p, Fail("INVALID_EMAIL"))
          ELSE IF ~r.phoneOk
            THEN /\ pc' = [pc EXCEPT ![p] = "done"]
                 /\ Respond(p, Fail("INVALID_PHONE"))
          ELSE /\ pc' = [pc EXCEPT ![p] = "s_upPic"]
               /\ UNCHANGED resp
  /\ UNCHANGED <<backend, log, faults, solo, group, messages>>

FileExists(bucket, id) == \E f \in files : f.bucket = bucket /\ f.id = id

\* storage.createFile(PROFILE_PIC_BUCKET_ID, `${userId}_user_pic.png`, ...)
SignupUploadPic(p) ==
  /\ pc[p] = "s_upPic"
  /\ \E o \in {"ok"} \cup Thrown :
       LET out == IF o = "ok" /\ FileExists("pic", req[p].userId) THEN "conflict" ELSE o
       IN /\ Fault(o)
          /\ IF out = "ok"
               THEN /\ files' = files \cup {[bucket |-> "pic", id |-> req[p].userId, by |-> p]}
                    /\ Step(p, "s_upQr", [loc[p] EXCEPT !.pic = TRUE],
                            Call("createFile", "pic", FALSE, out))
                    /\ UNCHANGED resp
               ELSE /\ Step(p, "done", loc[p], Call("createFile", "pic", FALSE, out))
                    /\ Respond(p, Fail("PROFILE_PIC_UPLOAD_FAILED"))
                    /\ UNCHANGED files
  /\ UNCHANGED <<users, tickets, transactions, orders, event, txns, req>>

\* A handler that opens its context although the QR upload threw.
SignupUploadQrIgnored(p) ==
  /\ pc[p] = "s_upQr"
  /\ \E o \in {"ok"} \cup Thrown :
       LET out == IF o = "ok" /\ FileExists("qr", req[p].userId) THEN "conflict" ELSE o
       IN /\ Fault(o)
          /\ files' = IF out = "ok"
                        THEN files \cup {[bucket |-> "qr", id |-> req[p].userId, by |-> p]}
                        ELSE files
          /\ Step(p, "s_createTx", [loc[p] EXCEPT !.qr = (out = "ok")],
                  Call("createFile", "qr", FALSE, out))
  /\ UNCHANGED <<users, tickets, transactions, orders, event, txns, req, resp>>

\* storage.createFile(QR_CODE_BUCKET_ID, `${userId}_user_qr.png`, ...)
SignupUploadQr(p) ==
  /\ pc[p] = "s_upQr"
  /\ \E o \in {"ok"} \cup Thrown :
       LET out == IF o = "ok" /\ FileExists("qr", req[p].userId) THEN "conflict" ELSE o
       IN /\ Fault(o)
          /\ IF out = "ok"
               THEN /\ files' = files \cup {[bucket |-> "qr", id |-> req[p].userId, by |-> p]}
                    /\ Step(p, "s_createTx", [loc[p] EXCEPT !.qr = TRUE],
                            Call("createFile", "qr", FALSE, out))
               ELSE /\ Step(p, CleanupPc(loc[p].pic, FALSE),
                            [loc[p] EXCEPT !.after = "qrfail", !.clQr = FALSE],
                            Call("createFile", "qr", FALSE, out))
                    /\ UNCHANGED files
  /\ UNCHANGED <<users, tickets, transactions, orders, event, txns, req, resp>>

\* databases.createTransaction(180)
SignupCreateTx(p) ==
  /\ pc[p] = "s_createTx"
  /\ \E out \in {"ok"} \cup Thrown :
       /\ Fault(out)
       /\ IF out = "ok"
            THEN /\ txns' = [txns EXCEPT ![p] = [NoTxn EXCEPT !.state = "open"]]
                 /\ Step(p, "s_getUser", [loc[p] EXCEPT !.txId = TRUE],
                         Call("createTransaction", "", FALSE, out))
            ELSE /\ Step(p, SignupCatchPc(loc[p]), SignupCatchLoc(loc[p], out),
                         Call("createTransaction", "", FALSE, out))
                 /\ UNCHANGED txns
  /\ UNCHANGED <<files, users, tickets, transactions, orders, event, req, resp>>

\* The answer to a call that carries a transaction id: a context that is no
\* longer open is reported as "Transaction not found".
TxOut(p, o) == IF o = "ok" /\ txns[p].state # "open" THEN "notfound" ELSE o

TrackRead(p, kind, key) ==
  [txns EXCEPT ![p].reads = Append(@, [kind |-> kind, key |-> key,
                                       seen |-> Observe(kind, key)])]

\* databases.getDocument(DATABASE_ID, 'users', userId, [], appwriteTransactionId)
\* with the inner catch that lets a not-found error through.
SignupGetUser(p) ==
  /\ pc[p] = "s_getUser"
  /\ \E o \in {"ok"} \cup Thrown :
       LET out == TxOut(p, o)
           found == Observe("userById", req[p].userId) # {}
           res == IF out = "ok" /\ ~found THEN "notfound" ELSE out
       IN /\ Fault(o)
          /\ txns' = IF out = "ok" THEN TrackRead(p, "userById", req[p].userId) ELSE txns
          /\ IF res = "ok"
               THEN Step(p, "s_dupUserRb", loc[p], Call("getDocument", "users", TRUE, res))
             ELSE IF IsNotFound(res)
               THEN Step(p, "s_listEmail", loc[p], Call("getDocument", "users", TRUE, res))
             ELSE Step(p, SignupCatchPc(loc[p]), SignupCatchLoc(loc[p], res),
                       Call("getDocument", "users", TRUE, res))
  /\ UNCHANGED <<files, users, tickets, transactions, orders, event, req, resp>>

\* The rollback issued inside the try block of the duplicate-user check.
SignupDupUserRollback(p) ==
  /\ pc[p] = "s_dupUserRb"
  /\ \E o \in {"ok"} \cup Thrown :
       LET out == IF o = "ok" /\ ~RollbackLegit(txns[p]) THEN "notfound" ELSE o
       IN /\ Fault(o)
          /\ txns' = IF out = "ok" THEN [txns EXCEPT ![p].state = "rolledback"] ELSE txns
          /\ IF out = "ok"
               THEN Step(p, CleanupPc(loc[p].pic, loc[p].qr),
                         [loc[p] EXCEPT !.after = "dupUser", !.clQr = loc[p].qr],
                         Call("rollback", "", TRUE, out))
             ELSE IF IsNotFound(out)
               THEN Step(p, "s_listEmail", loc[p], Call("rollback", "", TRUE, out))
             ELSE Step(p, SignupCatchPc(loc[p]), SignupCatchLoc(loc[p], out),
                       Call("rollback", "", TRUE, out))
  /\ UNCHANGED <<files, users, tickets, transactions, orders, event, req, resp>>

\* databases.listDocuments(DATABASE_ID, 'users', [Query.equal('email', email)],
\* undefined, appwriteTransactionId)
SignupListEmail(p) ==
  /\ pc[p] = "s_listEmail"
  /\ \E o \in {"ok"} \cup Thrown :
       LET out == TxOut(p, o)
           hits == SelectSeq(users, LAMBDA u : u.email = req[p].email)
       IN /\ Fault(o)
          /\ txns' = IF out = "ok" THEN TrackRead(p, "userByEmail", req[p].email) ELSE txns
          /\ IF out # "ok"
               THEN Step(p, SignupCatchPc(loc[p]), SignupCatchLoc(loc[p], out),
                         Call("listDocuments", "users", TRUE, out))
             ELSE IF Len(hits) > 0
               THEN Step(p, "s_dupEmailRb", [loc[p] EXCEPT !.existing = hits[1].id],
                         Call("listDocuments", "users", TRUE, out))
             ELSE Step(p, "s_createDoc", loc[p], Call("listDocuments", "users", TRUE, out))
  /\ UNCHANGED <<files, users, tickets, transactions, orders, event, req, resp>>

\* The rollback issued by the duplicate-email branch (outside any inner try).
SignupDupEmailRollback(p) ==
  /\ pc[p] = "s_dupEmailRb"
  /\ \E o \in {"ok"} \cup Thrown :
       LET out == IF o = "ok" /\ ~RollbackLegit(txns[p]) THEN "notfound" ELSE o
       IN /\ Fault(o)
          /\ txns' = IF out = "ok" THEN [txns EXCEPT ![p].state = "rolledback"] ELSE txns
          /\ IF out = "ok"
               THEN Step(p, CleanupPc(loc[p].pic, loc[p].qr),
                         [loc[p] EXCEPT !.after = "dupEmail", !.clQr = loc[p].qr],
                         Call("rollback", "", TRUE, out))
             ELSE Step(p, SignupCatchPc(loc[p]), SignupCatchLoc(loc[p], out),
                       Call("rollback", "", TRUE, out))
  /\ UNCHANGED <<files, users, tickets, transactions, orders, event, req, resp>>

\* databases.createDocument(DATABASE_ID, 'users', userId, {...}, [], appwriteTransactionId)
SignupCreateDoc(p) ==
  /\ pc[p] = "s_createDoc"
  /\ \E o \in {"ok"} \cup Thrown :
       LET out == TxOut(p, o)
           doc == [id |-> req[p].userId, email |-> req[p].email, by |-> p]
       IN /\ Fault(o)
          /\ txns' = IF out = "ok"
                       THEN [txns EXCEPT ![p].ops =
                               Append(@, [op |-> "create", coll |-> "users",
                                          id |-> doc.id, doc |-> doc])]
                       ELSE txns
          /\ IF out = "ok"
               THEN Step(p, "s_commit", loc[p], Call("createDocument", "users", TRUE, out))
               ELSE Step(p, SignupCatchPc(loc[p]), SignupCatchLoc(loc[p], out),
                         Call("createDocument", "users", TRUE, out))
  /\ UNCHANGED <<files, users, tickets, transactions, orders, event, req, resp>>

\* A commit that an expired context accepts like an open one.
CommitOutLenient(p, o) ==
  IF o # "ok" THEN o
  ELSE IF txns[p].state \notin {"open", "expired"} THEN "notfound"
  ELSE IF ~CommitValid(txns[p]) THEN "conflict"
  ELSE "ok"

\* The answer of updateTransaction(id, true): not found when the context is
\* gone, a conflict when validation fails, otherwise the staged log is applied.
CommitOut(p, o) ==
  IF o # "ok" THEN o
  ELSE IF txns[p].state # "open" THEN "notfound"
  ELSE IF ~CommitValid(txns[p]) THEN "conflict"
  ELSE "ok"

\* The effect of a commit call on the store and on the context.
CommitEffect(p, out) ==
  IF out = "ok"
    THEN /\ users' = users \o StagedDocs(txns[p], "users")
         /\ tickets' = tickets \o StagedDocs(txns[p], "tickets")
         /\ transactions' = transactions \o StagedDocs(txns[p], "transactions")
         /\ orders' = orders \o StagedDocs(txns[p], "orders")
         /\ event' = StagedEvent(txns[p])
         /\ txns' = [txns EXCEPT ![p].state = "committed"]
    ELSE /\ UNCHANGED <<users, tickets, transactions, orders, event>>
         /\ txns' = IF out = "conflict" /\ txns[p].state = "open"
                         /\ ~CommitValid(txns[p])
                      THEN [txns EXCEPT ![p].state = "failed"]
                      ELSE txns

\* databases.updateTransaction(appwriteTransactionId, true) and the success response.
SignupCommit(p) ==
  /\ pc[p] = "s_commit"
  /\ \E o \in {"ok"} \cup Thrown :
       LET out == CommitOut(p, o)
       IN /\ Fault(o)
          /\ CommitEffect(p, IF o = "ok" THEN out ELSE "thrown")
          /\ IF out = "ok"
               THEN /\ Step(p, "done", loc[p], Call("commit", "", TRUE, out))
                    /\ Respond(p, [RespBase EXCEPT !.success = TRUE, !.code = "OK"])
               ELSE /\ Step(p, SignupCatchPc(loc[p]), SignupCatchLoc(loc[p], out),
                            Call("commit", "", TRUE, out))
                    /\ UNCHANGED resp
  /\ UNCHANGED <<files, req>>

\* A top-level catch that answers at once when its rollback throws.
SignupCatchRollbackAbort(p) ==
  /\ pc[p] = "s_catchRb"
  /\ \E o \in {"ok"} \cup Thrown :
       LET out == IF o = "ok" /\ ~RollbackLegit(txns[p]) THEN "notfound" ELSE o
           l == [loc[p] EXCEPT !.rbOk = (out = "ok")]
           next == IF out = "ok" THEN CleanupPc(l.pic, l.qr) ELSE "done"
       IN /\ Fault(o)
          /\ txns' = IF out = "ok" THEN [txns EXCEPT ![p].state = "rolledback"] ELSE txns
          /\ Step(p, next, l, Call("rollback", "", TRUE, out))
          /\ IF next = "done" THEN Respond(p, SignupAfterCleanup(req[p], l))
                              ELSE UNCHANGED resp
  /\ UNCHANGED <<files, users, tickets, transactions, orders, event, req>>

\* The rollback attempted by the top-level catch; its failure is only logged.
SignupCatchRollback(p) ==
  /\ pc[p] = "s_catchRb"
  /\ \E o \in {"ok"} \cup Thrown :
       LET out == IF o = "ok" /\ ~RollbackLegit(txns[p]) THEN "notfound" ELSE o
           l == [loc[p] EXCEPT !.rbOk = (out = "ok")]
           next == CleanupPc(l.pic, l.qr)
       IN /\ Fault(o)
          /\ txns' = IF out = "ok" THEN [txns EXCEPT ![p].state = "rolledback"] ELSE txns
          /\ Step(p, next, l, Call("rollback", "", TRUE, out))
          /\ IF next = "done" THEN Respond(p, SignupAfterCleanup(req[p], l))
                              ELSE UNCHANGED resp
  /\ UNCHANGED <<files, users, tickets, transactions, orders, event, req>>

\* storage.deleteFile: the file is removed, or the call throws (not found when
\* there is no such file).
DeleteOut(bucket, id, o) ==
  IF o = "ok" /\ ~FileExists(bucket, id) THEN "notfound" ELSE o

\* A delete that empties the bucket.
DeleteEffectWholeBucket(bucket, id, out) ==
  files' = IF out = "ok" THEN {f \in files : f.bucket # bucket} ELSE files

DeleteEffect(bucket, id, out) ==
  files' = IF out = "ok" THEN {f \in files : ~(f.bucket = bucket /\ f.id = id)}
           ELSE files

\* cleanupUploadedFiles giving up at the first delete that throws.
CleanupPicHalting(p) ==
  /\ pc[p] = "cl_pic"
  /\ \E o \in {"ok"} \cup Thrown :
       LET out == DeleteOut("pic", req[p].userId, o)
           l == [loc[p] EXCEPT !.resPic = (out = "ok")]
           next == IF l.clQr /\ out = "ok" THEN "cl_qr" ELSE "done"
       IN /\ Fault(o)
          /\ DeleteEffect("pic", req[p].userId, out)
          /\ Step(p, next, l, Call("deleteFile", "pic", FALSE, out))
          /\ IF next = "done" THEN Respond(p, SignupAfterCleanup(req[p], l))
                              ELSE UNCHANGED resp
  /\ UNCHANGED <<users, tickets, transactions, orders, event, txns, req>>

\* cleanupUploadedFiles: delete the profile picture if one was uploaded.
CleanupPic(p) ==
  /\ pc[p] = "cl_pic"
  /\ \E o \in {"ok"} \cup Thrown :
       LET out == DeleteOut("pic", req[p].userId, o)
           l == [loc[p] EXCEPT !.resPic = (out = "ok")]
           next == IF l.clQr THEN "cl_qr" ELSE "done"
       IN /\ Fault(o)
          /\ DeleteEffect("pic", req[p].userId, out)
          /\ Step(p, next, l, Call("deleteFile", "pic", FALSE, out))
          /\ IF next = "done" THEN Respond(p, SignupAfterCleanup(req[p], l))
                              ELSE UNCHANGED resp
  /\ UNCHANGED <<users, tickets, transactions, orders, event, txns, req>>

\* cleanupUploadedFiles: delete the QR code if one was uploaded, then return.
CleanupQr(p) ==
  /\ pc[p] = "cl_qr"
  /\ \E o \in {"ok"} \cup Thrown :
       LET out == DeleteOut("qr", req[p].userId, o)
           l == [loc[p] EXCEPT !.resQr = (out = "ok")]
       IN /\ Fault(o)
          /\ DeleteEffect("qr", req[p].userId, out)
          /\ Step(p, "done", l, Call("deleteFile", "qr", FALSE, out))
          /\ Respond(p, SignupAfterCleanup(req[p], l))
  /\ UNCHANGED <<users, tickets, transactions, orders, event, txns, req>>

SignupStep(p) ==
  \/ SignupStart(p)
  \/ SignupUploadPic(p)
  \/ SignupUploadQr(p)
  \/ SignupCreateTx(p)
  \/ SignupGetUser(p)
  \/ SignupDupUserRollback(p)
  \/ SignupListEmail(p)
  \/ SignupDupEmailRollback(p)
  \/ SignupCreateDoc(p)
  \/ SignupCommit(p)
  \/ SignupCatchRollback(p)
  \/ CleanupPic(p)
  \/ CleanupQr(p)

\* =============================================================== booking
PaymentIds == {"p1", "p2"}
Quantities == {"abc", "-1", "0", "1", "2", "11"}
TicketTypes == {"VIP", "GA"}
ClientTicket == [src |-> "client", n |-> 1]
BookingFields == {"userId", "eventId", "paymentId", "quantity", "ticketTypeName"}

\* One category entry "name:price:qty:phase", of which `parts` fields are
\* present (no quantity when there are fewer than three).
Category(name, parts, qty) ==
  [name |-> name, parts |-> parts, qty |-> IF parts >= 3 THEN JsInt(qty) ELSE JsNaN]

\* Category lists with several entries of one name, with entries cut short,
\* and without the requested name.
CategoryLists ==
  { <<Category("VIP", 4, 2)>>,
    <<Category("VIP", 4, 1), Category("VIP", 4, 2)>>,
    <<Category("VIP", 4, 2), Category("VIP", 4, 0)>>,
    <<Category("VIP", 2, 0), Category("VIP", 4, 2)>>,
    <<Category("GA", 4, 0), Category("VIP", 3, 2)>>,
    <<Category("GA", 4, 2)>>,
    <<>> }

\* ID.unique(): an id no other call returns.
UniqueId(p) == [src |-> "gen", n |-> p]

BookReq(h, sdkTx, body, missing, pay, qty, type, tid) ==
  [handler |-> h, sdkTx |-> sdkTx, body |-> body, missing |-> missing,
   paymentId |-> pay, quantity |-> IF missing = "quantity" THEN "missing" ELSE qty,
   ticketTypeName |-> type, ticketId |-> tid]

\* Requests to bookTicketAtomic.
AtomicRequests(p) ==
  {BookReq("atomic", TRUE, "ok", "none", pay, q, "VIP", tid) :
     pay \in PaymentIds, q \in {"1", "2"}, tid \in {NoTicket, ClientTicket}}
  \cup (IF Wide(p)
          THEN {BookReq("atomic", TRUE, "ok", "none", "p1", q, ty, NoTicket) :
                  q \in Quantities, ty \in TicketTypes}
               \cup {BookReq("atomic", TRUE, "ok", f, "p1", "1", "VIP", NoTicket) :
                       f \in BookingFields}
               \cup {BookReq("atomic", TRUE, "malformed", "none", "p1", "1", "VIP",
                             NoTicket)}
          ELSE {})

BookLoc ==
  [txId |-> FALSE, ticketId |-> NoTicket, err |-> "", existing |-> NoTicket,
   cur |-> JsInt(0), cats |-> <<>>, fmt |-> "", retries |-> 0,
   created |-> <<>>, todo |-> <<>>]

\* isNaN(quantityInt) || quantityInt < 1 || quantityInt > 10
AtomicQuantityInvalid(q) == q.nan \/ q.n < 1 \/ q.n > 10

\* Error code chosen by the catch of bookTicketAtomic.
AtomicErrorCode(k) ==
  CASE k = "conflict" -> "CONFLICT_ERROR"
    [] k = "notfound" -> "NOT_FOUND_ERROR"
    [] OTHER -> "BOOKING_ERROR"

AtomicCatchResp(l) ==
  [Fail(AtomicErrorCode(l.err)) EXCEPT !.trb = IF l.txId THEN "true" ELSE "false"]

\* A catch of bookTicketAtomic that answers without a rollback.
AtomicCatchNoRollback(p, k, call) ==
  LET l == [loc[p] EXCEPT !.err = k]
  IN Step(p, "done", l, call) /\ Respond(p, AtomicCatchResp(l))

\* Entry of the catch of bookTicketAtomic after a call threw error k.
AtomicCatch(p, k, call) ==
  LET l == [loc[p] EXCEPT !.err = k]
  IN IF l.txId
       THEN Step(p, "a_catchRb", l, call) /\ UNCHANGED resp
       ELSE Step(p, "done", l, call) /\ Respond(p, AtomicCatchResp(l))

\* A check that is satisfied by any entry of that name with enough quantity.
TypeAvailableAny(fmt, cats, name, q) ==
  /\ fmt = "array"
  /\ \E i \in 1..Len(cats) :
        /\ cats[i].parts >= 3 /\ cats[i].name = name
        /\ parseIntOrZero(cats[i].qty).n >= q.n

\* The first category entry with at least three parts whose name matches
\* decides whether the ticket type is available.
TypeAvailable(fmt, cats, name, q) ==
  LET idx == {i \in 1..Len(cats) : cats[i].parts >= 3 /\ cats[i].name = name}
  IN /\ fmt = "array"
     /\ idx # {}
     /\ parseIntOrZero(cats[CHOOSE i \in idx : \A j \in idx : i <= j].qty).n >= q.n

\* Every entry with at least four parts and a matching name is decremented.
AtomicUpdatedTypes(cats, name, q) ==
  [i \in 1..Len(cats) |->
     IF cats[i].parts >= 4 /\ cats[i].name = name
       THEN [cats[i] EXCEPT !.qty = JsMaxZeroDiff(parseIntOrZero(@), q)]
       ELSE cats[i]]

\* The required fields checked by bookWithTransactions, which a handler that
\* copied that check would apply.
ThreeFieldsMissing(r) == r.missing \in {"userId", "eventId", "paymentId"}

\* !userId || !eventId || !paymentId || !quantity || !ticketTypeName
AtomicFieldsMissing(r) == r.missing # "none"

\* Parse and validate the request of bookTicketAtomic (no backend call).
AtomicStart(p) ==
  /\ Idle(p)
  /\ \E r \in AtomicRequests(p) :
       /\ req' = [req EXCEPT ![p] = r]
       /\ loc' = [loc EXCEPT ![p] = BookLoc]
       /\ IF r.body = "malformed"
            THEN /\ pc' = [pc EXCEPT ![p] = "done"]
                 /\ Respond(p, AtomicCatchResp([BookLoc EXCEPT !.err = "syntax"]))
          ELSE IF AtomicFieldsMissing(r)
            THEN /\ pc' = [pc EXCEPT ![p] = "done"]
                 /\ Respond(p, Fail("VALIDATION_ERROR"))
          ELSE IF AtomicQuantityInvalid(parseInt(r.quantity))
            THEN /\ pc' = [pc EXCEPT ![p] = "done"]
                 /\ Respond(p, Fail("INVALID_QUANTITY"))
          ELSE /\ pc' = [pc EXCEPT ![p] = "a_createTx"]
               /\ UNCHANGED resp
  /\ UNCHANGED <<backend, log, faults, solo, group, messages>>

\* databases.createTransaction(300)
AtomicCreateTx(p) ==
  /\ pc[p] = "a_createTx"
  /\ \E out \in {"ok"} \cup Thrown :
       /\ Fault(out)
       /\ IF out = "ok"
            THEN /\ txns' = [txns EXCEPT ![p] = [NoTxn EXCEPT !.state = "open"]]
                 /\ Step(p, "a_listPay", [loc[p] EXCEPT !.txId = TRUE],
                         Call("createTransaction", "", FALSE, out))
                 /\ UNCHANGED resp
            ELSE /\ AtomicCatch(p, out, Call("createTransaction", "", FALSE, out))
                 /\ UNCHANGED txns
  /\ UNCHANGED <<files, users, tickets, transactions, orders, event, req>>

PaymentHits(pay) == SelectSeq(transactions, LAMBDA d : d.paymentId = pay)

\* listDocuments('transactions', [Query.equal('paymentId', paymentId)], undefined,
\* appwriteTransactionId)
AtomicListPay(p) ==
  /\ pc[p] = "a_listPay"
  /\ \E o \in {"ok"} \cup Thrown :
       LET out == TxOut(p, o)
           hits == PaymentHits(req[p].paymentId)
           call == Call("listDocuments", "transactions", TRUE, out)
       IN /\ Fault(o)
          /\ txns' = IF out = "ok" THEN TrackRead(p, "payment", req[p].paymentId) ELSE txns
          /\ IF out # "ok" THEN AtomicCatch(p, out, call)
             ELSE IF Len(hits) > 0
               THEN Step(p, "a_dupPayRb", [loc[p] EXCEPT !.existing = hits[1].ticketId], call)
                    /\ UNCHANGED resp
             ELSE Step(p, "a_getEvent", loc[p], call) /\ UNCHANGED resp
  /\ UNCHANGED <<files, users, tickets, transactions, orders, event, req>>

\* The rollback of the duplicate-payment branch and its response.
AtomicDupPayRollback(p) ==
  /\ pc[p] = "a_dupPayRb"
  /\ \E o \in {"ok"} \cup Thrown :
       LET out == IF o = "ok" /\ ~RollbackLegit(txns[p]) THEN "notfound" ELSE o
           call == Call("rollback", "", TRUE, out)
       IN /\ Fault(o)
          /\ txns' = IF out = "ok" THEN [txns EXCEPT ![p].state = "rolledback"] ELSE txns
          /\ IF out = "ok"
               THEN /\ Step(p, "done", loc[p], call)
                    /\ Respond(p, [Fail("DUPLICATE_PAYMENT") EXCEPT
                                     !.hasExistingTicketId = TRUE,
                                     !.existingTicketId = loc[p].existing])
               ELSE AtomicCatch(p, out, call)
  /\ UNCHANGED <<files, users, tickets, transactions, orders, event, req>>

\* getDocument('events', eventId, [], appwriteTransactionId) followed by the
\* availability checks, which respond without touching the context.
AtomicGetEvent(p) ==
  /\ pc[p] = "a_getEvent"
  /\ \E o \in {"ok"} \cup Thrown :
       LET out == TxOut(p, o)
           call == Call("getDocument", "events", TRUE, out)
           q == parseInt(req[p].quantity)
           cur == parseIntOrZero(event.ticketsLeft)
           l == [loc[p] EXCEPT !.cur = cur, !.cats = event.categories,
                               !.fmt = event.fmt,
                               !.ticketId = IF req[p].ticketId = NoTicket
                                              THEN UniqueId(p) ELSE req[p].ticketId]
       IN /\ Fault(o)
          /\ txns' = IF out = "ok" THEN [txns EXCEPT ![p].evRead = event.ver] ELSE txns
          /\ IF out # "ok" THEN AtomicCatch(p, out, call)
             ELSE IF JsLess(cur, q)
               THEN Step(p, "done", loc[p], call)
                    /\ Respond(p, Fail("INSUFFICIENT_TICKETS"))
             ELSE IF ~TypeAvailable(event.fmt, event.categories, req[p].ticketTypeName, q)
               THEN Step(p, "done", loc[p], call)
                    /\ Respond(p, Fail("TICKET_TYPE_UNAVAILABLE"))
             ELSE IF req[p].ticketId # NoTicket
               THEN Step(p, "a_getTicket", l, call) /\ UNCHANGED resp
             ELSE Step(p, "a_createTicket", l, call) /\ UNCHANGED resp
  /\ UNCHANGED <<files, users, tickets, transactions, orders, event, req>>

\* getDocument('tickets', ticketId, [], appwriteTransactionId) for a ticket id
\* supplied by the client; not-found errors mean the id is free.
AtomicGetTicket(p) ==
  /\ pc[p] = "a_getTicket"
  /\ \E o \in {"ok"} \cup Thrown :
       LET out == TxOut(p, o)
           found == Observe("ticketById", loc[p].ticketId) # {}
           res == IF out = "ok" /\ ~found THEN "notfound" ELSE out
           call == Call("getDocument", "tickets", TRUE, res)
       IN /\ Fault(o)
          /\ txns' = IF out = "ok" THEN TrackRead(p, "ticketById", loc[p].ticketId)
                     ELSE txns
          /\ IF res = "ok" THEN Step(p, "a_dupTicketRb", loc[p], call) /\ UNCHANGED resp
             ELSE IF IsNotFound(res)
               THEN Step(p, "a_createTicket", loc[p], call) /\ UNCHANGED resp
             ELSE AtomicCatch(p, res, call)
  /\ UNCHANGED <<files, users, tickets, transactions, orders, event, req>>

\* The rollback issued inside the try block of the ticket-id check.
AtomicDupTicketRollback(p) ==
  /\ pc[p] = "a_dupTicketRb"
  /\ \E o \in {"ok"} \cup Thrown :
       LET out == IF o = "ok" /\ ~RollbackLegit(txns[p]) THEN "notfound" ELSE o
           call == Call("rollback", "", TRUE, out)
       IN /\ Fault(o)
          /\ txns' = IF out = "ok" THEN [txns EXCEPT ![p].state = "rolledback"] ELSE txns
          /\ IF out = "ok"
               THEN /\ Step(p, "done", loc[p], call)
                    /\ Respond(p, [Fail("DUPLICATE_TICKET_ID") EXCEPT
                                     !.hasExistingTicketId = TRUE,
                                     !.existingTicketId = loc[p].ticketId])
             ELSE IF IsNotFound(out)
               THEN Step(p, "a_createTicket", loc[p], call) /\ UNCHANGED resp
             ELSE AtomicCatch(p, out, call)
  /\ UNCHANGED <<files, users, tickets, transactions, orders, event, req>>

\* err.code || err.type || 'BOOKING_ERROR' in the catch blocks of
\* bookTicketAtomic_v2: the numeric code of a backend error is passed through.
V2ErrorCode(k) == IF k \in ErrKinds THEN ErrCode(k) ELSE "BOOKING_ERROR"

\* Entry of the catch of bookWithTransactions after a call threw error k.
NativeCatch(p, k, call) ==
  LET l == [loc[p] EXCEPT !.err = k]
  IN IF l.txId
       THEN Step(p, "n_catchRb", l, call) /\ UNCHANGED resp
       ELSE Step(p, "done", l, call) /\ Respond(p, Fail(V2ErrorCode(k)))

\* The catch block that encloses a staged call.
BookCatch(p, k, call) ==
  IF req[p].handler = "atomic" THEN AtomicCatch(p, k, call) ELSE NativeCatch(p, k, call)

\* The documents a booking writes.
TicketDoc(p) == [id |-> loc[p].ticketId, quantity |-> req[p].quantity, by |-> p]
TransactionDoc(p) ==
  [id |-> UniqueId(p), paymentId |-> req[p].paymentId, ticketId |-> loc[p].ticketId,
   by |-> p]
OrderDoc(p) == [id |-> UniqueId(p), ticketId |-> loc[p].ticketId, by |-> p]

CreateOp(coll, doc) == [op |-> "create", coll |-> coll, id |-> doc.id, doc |-> doc]
UpdateEventOp(p, left, cats) ==
  [op |-> "update", coll |-> "events", id |-> "e1",
   doc |-> [ticketsLeft |-> left, categories |-> cats, by |-> p]]

\* A create or update that carries the transaction id: the operation is
\* appended to the staged log of the context and nothing is persisted.
StageCall(p, op, o, next) ==
  LET out == TxOut(p, o)
      call == Call(IF op.op = "create" THEN "createDocument" ELSE "updateDocument",
                   op.coll, TRUE, out)
  IN /\ Fault(o)
     /\ txns' = IF out = "ok" THEN [txns EXCEPT ![p].ops = Append(@, op)] ELSE txns
     /\ IF out = "ok" THEN Step(p, next, loc[p], call) /\ UNCHANGED resp
        ELSE BookCatch(p, out, call)

\* createDocument('tickets', ticketId, {...}, [], appwriteTransactionId)
AtomicCreateTicket(p) ==
  /\ pc[p] = "a_createTicket"
  /\ \E o \in {"ok"} \cup Thrown :
       StageCall(p, CreateOp("tickets", TicketDoc(p)), o, "a_createTxnDoc")
  /\ UNCHANGED <<files, users, tickets, transactions, orders, event, req>>

\* createDocument('transactions', ID.unique(), {...}, [], appwriteTransactionId)
AtomicCreateTxnDoc(p) ==
  /\ pc[p] = "a_createTxnDoc"
  /\ \E o \in {"ok"} \cup Thrown :
       StageCall(p, CreateOp("transactions", TransactionDoc(p)), o, "a_createOrder")
  /\ UNCHANGED <<files, users, tickets, transactions, orders, event, req>>

\* createDocument('orders', ID.unique(), {...}, [], appwriteTransactionId)
AtomicCreateOrder(p) ==
  /\ pc[p] = "a_createOrder"
  /\ \E o \in {"ok"} \cup Thrown :
       StageCall(p, CreateOp("orders", OrderDoc(p)), o, "a_updateEvent")
  /\ UNCHANGED <<files, users, tickets, transactions, orders, event, req>>

\* updateDocument('events', eventId, {ticketsLeft, categories}, [], appwriteTransactionId)
AtomicUpdateEvent(p) ==
  /\ pc[p] = "a_updateEvent"
  /\ \E o \in {"ok"} \cup Thrown :
       LET q == parseInt(req[p].quantity)
       IN StageCall(p, UpdateEventOp(p, JsMaxZeroDiff(loc[p].cur, q),
                                     AtomicUpdatedTypes(loc[p].cats,
                                                        req[p].ticketTypeName, q)),
                    o, "a_commit")
  /\ UNCHANGED <<files, users, tickets, transactions, orders, event, req>>

BookingSuccess(p) ==
  [RespBase EXCEPT !.success = TRUE, !.code = "OK",
                   !.hasExistingTicketId = FALSE]

\* A commit whose rejection is not propagated: the handler answers success
\* whatever updateTransaction returned.
AtomicCommitUnchecked(p) ==
  /\ pc[p] = "a_commit"
  /\ \E o \in {"ok"} \cup Thrown :
       LET out == CommitOut(p, o)
           call == Call("commit", "", TRUE, out)
       IN /\ Fault(o)
          /\ CommitEffect(p, IF o = "ok" THEN out ELSE "thrown")
          /\ Step(p, "done", loc[p], call)
          /\ Respond(p, BookingSuccess(p))
  /\ UNCHANGED <<files, req>>

\* updateTransaction(appwriteTransactionId, true) and the success response.
AtomicCommit(p) ==
  /\ pc[p] = "a_commit"
  /\ \E o \in {"ok"} \cup Thrown :
       LET out == CommitOut(p, o)
           call == Call("commit", "", TRUE, out)
       IN /\ Fault(o)
          /\ CommitEffect(p, IF o = "ok" THEN out ELSE "thrown")
          /\ IF out = "ok"
               THEN Step(p, "done", loc[p], call) /\ Respond(p, BookingSuccess(p))
               ELSE AtomicCatch(p, out, call)
  /\ UNCHANGED <<files, req>>

\* The rollback attempted by the catch of bookTicketAtomic, and its response.
AtomicCatchRollback(p) ==
  /\ pc[p] = "a_catchRb"
  /\ \E o \in {"ok"} \cup Thrown :
       LET out == IF o = "ok" /\ ~RollbackLegit(txns[p]) THEN "notfound" ELSE o
       IN /\ Fault(o)
          /\ txns' = IF out = "ok" THEN [txns EXCEPT ![p].state = "rolledback"] ELSE txns
          /\ Step(p, "done", loc[p], Call("rollback", "", TRUE, out))
          /\ Respond(p, AtomicCatchResp(loc[p]))
  /\ UNCHANGED <<files, users, tickets, transactions, orders, event, req>>

AtomicStep(p) ==
  \/ AtomicStart(p)
  \/ AtomicCreateTx(p)
  \/ AtomicListPay(p)
  \/ AtomicDupPayRollback(p)
  \/ AtomicGetEvent(p)
  \/ AtomicGetTicket(p)
  \/ AtomicDupTicketRollback(p)
  \/ AtomicCreateTicket(p)
  \/ AtomicCreateTxnDoc(p)
  \/ AtomicCreateOrder(p)
  \/ AtomicUpdateEvent(p)
  \/ AtomicCommit(p)
  \/ AtomicCatchRollback(p)

\* ==================================================== bookTicketAtomic_v2
\* Requests to bookTicketAtomic_v2; sdkTx says whether the SDK has
\* databases.createTransaction.
V2Requests(p) ==
  {BookReq("v2", tx, "ok", "none", pay, q, "VIP", NoTicket) :
     tx \in BOOLEAN, pay \in PaymentIds, q \in (IF Wide(p) THEN Quantities ELSE {"1", "2"})}
  \cup (IF Wide(p)
          THEN {BookReq("v2", tx, "ok", f, "p1", "1", "VIP", NoTicket) :
                  tx \in BOOLEAN, f \in BookingFields}
               \cup {BookReq("v2", tx, "ok", "none", "p1", "1", "GA", NoTicket) :
                       tx \in BOOLEAN}
               \cup {BookReq("v2", tx, "malformed", "none", "p1", "1", "VIP", NoTicket) :
                       tx \in BOOLEAN}
          ELSE {})

\* !userId || !eventId || !paymentId
V2FieldsMissing(r) == r.missing \in {"userId", "eventId", "paymentId"}

\* quantityInt < 1 || quantityInt > 10 (bookWithTransactions only)
V2QuantityInvalid(q) == JsLess(q, JsInt(1)) \/ JsLess(JsInt(10), q)

\* categoriesArray.map(...): every entry with a matching name is decremented.
V2UpdatedCategories(cats, name, q) ==
  [i \in 1..Len(cats) |->
     IF cats[i].name = name
       THEN [cats[i] EXCEPT !.qty = JsMaxZeroDiff(parseIntOrZero(@), q)]
       ELSE cats[i]]

\* An entry point that takes the native path whatever the SDK offers.
V2EntryAlwaysNative(r) == "n_createTx"

\* TRANSACTIONS_SUPPORTED = typeof databases.createTransaction === 'function'
\* selects bookWithTransactions, otherwise bookWithOptimisticLocking.
V2Entry(r) == IF r.sdkTx THEN "n_createTx" ELSE "f_getEvent"

\* The entry point probes the SDK, then the selected function parses and
\* validates the request (no backend call).
V2Start(p) ==
  /\ Idle(p)
  /\ \E r \in V2Requests(p) :
       /\ req' = [req EXCEPT ![p] = r]
       /\ loc' = [loc EXCEPT ![p] = [BookLoc EXCEPT !.retries = 3]]
       /\ IF r.body = "malformed"
            THEN /\ pc' = [pc EXCEPT ![p] = "done"]
                 /\ Respond(p, Fail(V2ErrorCode("syntax")))
          ELSE IF V2FieldsMissing(r)
            THEN /\ pc' = [pc EXCEPT ![p] = "done"]
                 /\ Respond(p, Fail("VALIDATION_ERROR"))
          ELSE IF r.sdkTx /\ V2QuantityInvalid(parseInt(r.quantity))
            THEN /\ pc' = [pc EXCEPT ![p] = "done"]
                 /\ Respond(p, Fail("INVALID_QUANTITY"))
          ELSE /\ pc' = [pc EXCEPT ![p] = V2Entry(r)]
               /\ UNCHANGED resp
  /\ UNCHANGED <<backend, log, faults, solo, group, messages>>

\* databases.createTransaction(DATABASE_ID, 60)
NativeCreateTx(p) ==
  /\ pc[p] = "n_createTx"
  /\ \E out \in {"ok"} \cup Thrown :
       /\ Fault(out)
       /\ IF out = "ok"
            THEN /\ txns' = [txns EXCEPT ![p] = [NoTxn EXCEPT !.state = "open"]]
                 /\ Step(p, "n_getEvent", [loc[p] EXCEPT !.txId = TRUE],
                         Call("createTransaction", "", FALSE, out))
                 /\ UNCHANGED resp
            ELSE /\ NativeCatch(p, out, Call("createTransaction", "", FALSE, out))
                 /\ UNCHANGED txns
  /\ UNCHANGED <<files, users, tickets, transactions, orders, event, req>>

\* getDocument('events', eventId, [], appwriteTransactionId) and the
\* availability check.
NativeGetEvent(p) ==
  /\ pc[p] = "n_getEvent"
  /\ \E o \in {"ok"} \cup Thrown :
       LET out == TxOut(p, o)
           call == Call("getDocument", "events", TRUE, out)
           cur == parseIntOrZero(event.ticketsLeft)
           l == [loc[p] EXCEPT !.cur = cur, !.cats = event.categories,
                               !.fmt = event.fmt, !.ticketId = UniqueId(p)]
       IN /\ Fault(o)
          /\ txns' = IF out = "ok" THEN [txns EXCEPT ![p].evRead = event.ver] ELSE txns
          /\ IF out # "ok" THEN NativeCatch(p, out, call)
             ELSE IF JsLess(cur, parseInt(req[p].quantity))
               THEN Step(p, "n_insuffRb", l, call) /\ UNCHANGED resp
             ELSE Step(p, "n_listPay", l, call) /\ UNCHANGED resp
  /\ UNCHANGED <<files, users, tickets, transactions, orders, event, req>>

\* A rollback issued by bookWithTransactions before an early response.
NativeEarlyRollback(p, r) ==
  \E o \in {"ok"} \cup Thrown :
    LET out == IF o = "ok" /\ ~RollbackLegit(txns[p]) THEN "notfound" ELSE o
        call == Call("rollback", "", TRUE, out)
    IN /\ Fault(o)
       /\ txns' = IF out = "ok" THEN [txns EXCEPT ![p].state = "rolledback"] ELSE txns
       /\ IF out = "ok" THEN Step(p, "done", loc[p], call) /\ Respond(p, r)
          ELSE NativeCatch(p, out, call)

\* updateTransaction(..., 'rollback') then the INSUFFICIENT_TICKETS response.
NativeInsufficientRollback(p) ==
  /\ pc[p] = "n_insuffRb"
  /\ NativeEarlyRollback(p, Fail("INSUFFICIENT_TICKETS"))
  /\ UNCHANGED <<files, users, tickets, transactions, orders, event, req>>

\* listDocuments('transactions', [Query.equal('paymentId', paymentId)]): the
\* call carries no transaction id.
NativeListPay(p) ==
  /\ pc[p] = "n_listPay"
  /\ \E out \in {"ok"} \cup Thrown :
       LET hits == PaymentHits(req[p].paymentId)
           call == Call("listDocuments", "transactions", FALSE, out)
       IN /\ Fault(out)
          /\ IF out # "ok" THEN NativeCatch(p, out, call)
             ELSE IF Len(hits) > 0
               THEN Step(p, "n_dupPayRb", [loc[p] EXCEPT !.existing = hits[1].ticketId], call)
                    /\ UNCHANGED resp
             ELSE Step(p, "n_createTicket", loc[p], call) /\ UNCHANGED resp
  /\ UNCHANGED <<backend, req>>

\* updateTransaction(..., 'rollback') then the DUPLICATE_PAYMENT response.
NativeDupPayRollback(p) ==
  /\ pc[p] = "n_dupPayRb"
  /\ NativeEarlyRollback(p, [Fail("DUPLICATE_PAYMENT") EXCEPT
                               !.hasExistingTicketId = TRUE,
                               !.existingTicketId = loc[p].existing])
  /\ UNCHANGED <<files, users, tickets, transactions, orders, event, req>>

NativeCreateTicket(p) ==
  /\ pc[p] = "n_createTicket"
  /\ \E o \in {"ok"} \cup Thrown :
       StageCall(p, CreateOp("tickets", TicketDoc(p)), o, "n_createTxnDoc")
  /\ UNCHANGED <<files, users, tickets, transactions, orders, event, req>>

NativeCreateTxnDoc(p) ==
  /\ pc[p] = "n_createTxnDoc"
  /\ \E o \in {"ok"} \cup Thrown :
       StageCall(p, CreateOp("transactions", TransactionDoc(p)), o, "n_createOrder")
  /\ UNCHANGED <<files, users, tickets, transactions, orders, event, req>>

\* The order is staged; JSON.parse(eventDoc.categories || '[]') then throws
\* when the attribute is not a JSON string.
NativeCreateOrder(p) ==
  /\ pc[p] = "n_createOrder"
  /\ \E o \in {"ok"} \cup Thrown :
       LET out == TxOut(p, o)
           call == Call("createDocument", "orders", TRUE, out)
       IN /\ Fault(o)
          /\ txns' = IF out = "ok"
                       THEN [txns EXCEPT ![p].ops = Append(@, CreateOp("orders", OrderDoc(p)))]
                       ELSE txns
          /\ IF out # "ok" THEN NativeCatch(p, out, call)
             ELSE IF loc[p].fmt # "json" THEN NativeCatch(p, "syntax", call)
             ELSE Step(p, "n_updateEvent", loc[p], call) /\ UNCHANGED resp
  /\ UNCHANGED <<files, users, tickets, transactions, orders, event, req>>

NativeUpdateEvent(p) ==
  /\ pc[p] = "n_updateEvent"
  /\ \E o \in {"ok"} \cup Thrown :
       LET q == parseInt(req[p].quantity)
       IN StageCall(p, UpdateEventOp(p, JsMaxZeroDiff(loc[p].cur, q),
                                     V2UpdatedCategories(loc[p].cats,
                                                         req[p].ticketTypeName, q)),
                    o, "n_commit")
  /\ UNCHANGED <<files, users, tickets, transactions, orders, event, req>>

\* updateTransaction(DATABASE_ID, appwriteTransactionId, 'commit') and the
\* success response.
NativeCommit(p) ==
  /\ pc[p] = "n_commit"
  /\ \E o \in {"ok"} \cup Thrown :
       LET out == CommitOut(p, o)
           call == Call("commit", "", TRUE, out)
       IN /\ Fault(o)
          /\ CommitEffect(p, IF o = "ok" THEN out ELSE "thrown")
          /\ IF out = "ok"
               THEN Step(p, "done", loc[p], call) /\ Respond(p, BookingSuccess(p))
               ELSE NativeCatch(p, out, call)
  /\ UNCHANGED <<files, req>>

\* The rollback attempted by the catch of bookWithTransactions, and its response.
NativeCatchRollback(p) ==
  /\ pc[p] = "n_catchRb"
  /\ \E o \in {"ok"} \cup Thrown :
       LET out == IF o = "ok" /\ ~RollbackLegit(txns[p]) THEN "notfound" ELSE o
       IN /\ Fault(o)
          /\ txns' = IF out = "ok" THEN [txns EXCEPT ![p].state = "rolledback"] ELSE txns
          /\ Step(p, "done", loc[p], Call("rollback", "", TRUE, out))
          /\ Respond(p, Fail(V2ErrorCode(loc[p].err)))
  /\ UNCHANGED <<files, users, tickets, transactions, orders, event, req>>

\* --------------------------------------------- bookWithOptimisticLocking
\* createdDocuments walked in the order of creation.
Forward(q) == q

Reverse(q) == [i \in 1..Len(q) |-> q[Len(q) + 1 - i]]

\* Entry of the catch of bookWithOptimisticLocking: createdDocuments is
\* reversed and walked; with nothing created the response follows at once.
FallbackCatch(p, k, call, created) ==
  LET l == [loc[p] EXCEPT !.err = k, !.created = created, !.todo = Reverse(created)]
  IN IF Len(created) > 0
       THEN Step(p, "f_delete", l, call) /\ UNCHANGED resp
       ELSE Step(p, "done", l, call) /\ Respond(p, Fail(V2ErrorCode(k)))

\* A read of the event that is not retried: the first error is thrown on.
FallbackGetEventOnce(p) ==
  /\ pc[p] = "f_getEvent"
  /\ \E out \in {"ok"} \cup Thrown :
       LET call == Call("getDocument", "events", FALSE, out)
           cur == parseIntOrZero(event.ticketsLeft)
           l == [loc[p] EXCEPT !.cur = cur, !.cats = event.categories,
                               !.fmt = event.fmt, !.ticketId = UniqueId(p)]
       IN /\ Fault(out)
          /\ IF out = "ok"
               THEN IF JsLess(cur, parseInt(req[p].quantity))
                      THEN Step(p, "done", loc[p], call)
                           /\ Respond(p, Fail("INSUFFICIENT_TICKETS"))
                      ELSE Step(p, "f_listPay", l, call) /\ UNCHANGED resp
             ELSE FallbackCatch(p, out, call, loc[p].created)
  /\ UNCHANGED <<backend, req>>

\* getDocument('events', eventId) inside the retry loop (retries = 3).
FallbackGetEvent(p) ==
  /\ pc[p] = "f_getEvent"
  /\ \E out \in {"ok"} \cup Thrown :
       LET call == Call("getDocument", "events", FALSE, out)
           cur == parseIntOrZero(event.ticketsLeft)
           l == [loc[p] EXCEPT !.cur = cur, !.cats = event.categories,
                               !.fmt = event.fmt, !.ticketId = UniqueId(p)]
       IN /\ Fault(out)
          /\ IF out = "ok"
               THEN IF JsLess(cur, parseInt(req[p].quantity))
                      THEN Step(p, "done", loc[p], call)
                           /\ Respond(p, Fail("INSUFFICIENT_TICKETS"))
                      ELSE Step(p, "f_listPay", l, call) /\ UNCHANGED resp
             ELSE IF loc[p].retries - 1 = 0
               THEN FallbackCatch(p, out, call, loc[p].created)
             ELSE Step(p, "f_getEvent", [loc[p] EXCEPT !.retries = @ - 1], call)
                  /\ UNCHANGED resp
  /\ UNCHANGED <<backend, req>>

\* listDocuments('transactions', [Query.equal('paymentId', paymentId)])
FallbackListPay(p) ==
  /\ pc[p] = "f_listPay"
  /\ \E out \in {"ok"} \cup Thrown :
       LET hits == PaymentHits(req[p].paymentId)
           call == Call("listDocuments", "transactions", FALSE, out)
       IN /\ Fault(out)
          /\ IF out # "ok" THEN FallbackCatch(p, out, call, loc[p].created)
             ELSE IF Len(hits) > 0
               THEN Step(p, "done", loc[p], call) /\ Respond(p, Fail("DUPLICATE_PAYMENT"))
             ELSE Step(p, "f_createTicket", loc[p], call) /\ UNCHANGED resp
  /\ UNCHANGED <<backend, req>>

\* A createDocument without transaction id: the document is persisted at
\* once, unless its id is taken or the call throws.
DirectOut(coll, id, o) == IF o = "ok" /\ Exists(coll, id) THEN "conflict" ELSE o

\* createDocument('tickets', ...) and createdDocuments.push
FallbackCreateTicket(p) ==
  /\ pc[p] = "f_createTicket"
  /\ \E o \in {"ok"} \cup Thrown :
       LET out == DirectOut("tickets", loc[p].ticketId, o)
           call == Call("createDocument", "tickets", FALSE, out)
       IN /\ Fault(o)
          /\ tickets' = IF out = "ok" THEN Append(tickets, TicketDoc(p)) ELSE tickets
          /\ IF out = "ok"
               THEN Step(p, "f_createTxnDoc",
                         [loc[p] EXCEPT !.created =
                            Append(@, [coll |-> "tickets", id |-> loc[p].ticketId])], call)
                    /\ UNCHANGED resp
               ELSE FallbackCatch(p, out, call, loc[p].created)
  /\ UNCHANGED <<files, users, transactions, orders, event, txns, req>>

\* createDocument('transactions', ...) and createdDocuments.push
FallbackCreateTxnDoc(p) ==
  /\ pc[p] = "f_createTxnDoc"
  /\ \E o \in {"ok"} \cup Thrown :
       LET out == DirectOut("transactions", UniqueId(p), o)
           call == Call("createDocument", "transactions", FALSE, out)
       IN /\ Fault(o)
          /\ transactions' = IF out = "ok" THEN Append(transactions, TransactionDoc(p))
                             ELSE transactions
          /\ IF out = "ok"
               THEN Step(p, "f_createOrder",
                         [loc[p] EXCEPT !.created =
                            Append(@, [coll |-> "transactions", id |-> UniqueId(p)])], call)
                    /\ UNCHANGED resp
               ELSE FallbackCatch(p, out, call, loc[p].created)
  /\ UNCHANGED <<files, users, tickets, orders, event, txns, req>>

\* createDocument('orders', ...) and createdDocuments.push; JSON.parse of the
\* categories then throws when the attribute is not a JSON string.
FallbackCreateOrder(p) ==
  /\ pc[p] = "f_createOrder"
  /\ \E o \in {"ok"} \cup Thrown :
       LET out == DirectOut("orders", UniqueId(p), o)
           call == Call("createDocument", "orders", FALSE, out)
           created == Append(loc[p].created, [coll |-> "orders", id |-> UniqueId(p)])
       IN /\ Fault(o)
          /\ orders' = IF out = "ok" THEN Append(orders, OrderDoc(p)) ELSE orders
          /\ IF out # "ok" THEN FallbackCatch(p, out, call, loc[p].created)
             ELSE IF loc[p].fmt # "json" THEN FallbackCatch(p, "syntax", call, created)
             ELSE Step(p, "f_updateEvent", [loc[p] EXCEPT !.created = created], call)
                  /\ UNCHANGED resp
  /\ UNCHANGED <<files, users, tickets, transactions, event, txns, req>>

\* updateDocument('events', eventId, {ticketsLeft, categories}) computed from
\* the event document read at the start, and the success response.
FallbackUpdateEvent(p) ==
  /\ pc[p] = "f_updateEvent"
  /\ \E out \in {"ok"} \cup Thrown :
       LET call == Call("updateDocument", "events", FALSE, out)
           q == parseInt(req[p].quantity)
       IN /\ Fault(out)
          /\ event' = IF out = "ok"
                        THEN [event EXCEPT
                                !.ticketsLeft = JsMaxZeroDiff(loc[p].cur, q),
                                !.categories = V2UpdatedCategories(loc[p].cats,
                                                  req[p].ticketTypeName, q),
                                !.ver = @ + 1,
                                !.writers = @ \cup {p}]
                        ELSE event
          /\ IF out = "ok"
               THEN Step(p, "done", loc[p], call) /\ Respond(p, BookingSuccess(p))
               ELSE FallbackCatch(p, out, call, loc[p].created)
  /\ UNCHANGED <<files, users, tickets, transactions, orders, txns, req>>

Without(coll, id) == SelectSeq(coll, LAMBDA d : d.id # id)

\* A cleanup loop that tries a delete again when it throws.
FallbackDeleteRetrying(p) ==
  /\ pc[p] = "f_delete"
  /\ \E o \in {"ok"} \cup Thrown :
       LET d == Head(loc[p].todo)
           out == IF o = "ok" /\ ~Exists(d.coll, d.id) THEN "notfound" ELSE o
           l == IF out = "ok" THEN [loc[p] EXCEPT !.todo = Tail(@)] ELSE loc[p]
           call == Call("deleteDocument", d.coll, FALSE, out)
       IN /\ Fault(o)
          /\ tickets' = IF out = "ok" /\ d.coll = "tickets"
                          THEN Without(tickets, d.id) ELSE tickets
          /\ transactions' = IF out = "ok" /\ d.coll = "transactions"
                               THEN Without(transactions, d.id) ELSE transactions
          /\ orders' = IF out = "ok" /\ d.coll = "orders"
                         THEN Without(orders, d.id) ELSE orders
          /\ IF Len(l.todo) > 0
               THEN Step(p, "f_delete", l, call) /\ UNCHANGED resp
               ELSE Step(p, "done", l, call) /\ Respond(p, Fail(V2ErrorCode(l.err)))
  /\ UNCHANGED <<files, users, event, txns, req>>

\* One round of the manual cleanup loop: deleteDocument on the next entry of
\* the reversed createdDocuments; a failure is logged and the loop goes on.
FallbackDelete(p) ==
  /\ pc[p] = "f_delete"
  /\ \E o \in {"ok"} \cup Thrown :
       LET d == Head(loc[p].todo)
           out == IF o = "ok" /\ ~Exists(d.coll, d.id) THEN "notfound" ELSE o
           l == [loc[p] EXCEPT !.todo = Tail(@)]
           call == Call("deleteDocument", d.coll, FALSE, out)
       IN /\ Fault(o)
          /\ tickets' = IF out = "ok" /\ d.coll = "tickets"
                          THEN Without(tickets, d.id) ELSE tickets
          /\ transactions' = IF out = "ok" /\ d.coll = "transactions"
                               THEN Without(transactions, d.id) ELSE transactions
          /\ orders' = IF out = "ok" /\ d.coll = "orders"
                         THEN Without(orders, d.id) ELSE orders
          /\ IF Len(l.todo) > 0
               THEN Step(p, "f_delete", l, call) /\ UNCHANGED resp
               ELSE Step(p, "done", l, call) /\ Respond(p, Fail(V2ErrorCode(l.err)))
  /\ UNCHANGED <<files, users, event, txns, req>>

V2Step(p) ==
  \/ V2Start(p)
  \/ NativeCreateTx(p)
  \/ NativeGetEvent(p)
  \/ NativeInsufficientRollback(p)
  \/ NativeListPay(p)
  \/ NativeDupPayRollback(p)
  \/ NativeCreateTicket(p)
  \/ NativeCreateTxnDoc(p)
  \/ NativeCreateOrder(p)
  \/ NativeUpdateEvent(p)
  \/ NativeCommit(p)
  \/ NativeCatchRollback(p)
  \/ FallbackGetEvent(p)
  \/ FallbackListPay(p)
  \/ FallbackCreateTicket(p)
  \/ FallbackCreateTxnDoc(p)
  \/ FallbackCreateOrder(p)
  \/ FallbackUpdateEvent(p)
  \/ FallbackDelete(p)

\* ===================================================== like notifications
\* acceptLikeNotification (src/src/acceptLikeNotification.js) and the handler
\* that ignores a like notification (src/unnamed/part_002).  Neither uses a
\* transaction context: each reads the group, checks that it is pending and
\* then writes.

\* A document of collection groups; writers lists the invocations whose
\* update or delete of it took effect.
Group(exists, direct, accepted) ==
  [exists |-> exists, isDirectChat |-> direct, isAccepted |-> accepted,
   writers |-> <<>>]

\* res.json({ success, message }) of the two handlers.
LikeResponse(success, message) == [success |-> success, message |-> message]

\* JSON.parse(req.body) and the check of the two required parameters.
LikeStart(p) ==
  /\ pc[p] = "idle"
  /\ \E h \in {"accept", "ignore"}, b \in {"ok", "malformed"},
        m \in {"none", "groupId", "userId"} :
       /\ b = "malformed" => m = "none"
       /\ req' = [req EXCEPT ![p] = [handler |-> h, body |-> b, missing |-> m]]
       /\ loc' = [loc EXCEPT ![p] = [todo |-> <<>>]]
       /\ IF b = "malformed"
            THEN /\ pc' = [pc EXCEPT ![p] = "done"]
                 /\ Respond(p, LikeResponse(FALSE, "Internal server error"))
          ELSE IF m # "none"
            THEN /\ pc' = [pc EXCEPT ![p] = "done"]
                 /\ Respond(p, LikeResponse(FALSE, "Missing required parameters"))
          ELSE /\ pc' = [pc EXCEPT ![p] = "l_getGroup"]
               /\ UNCHANGED resp
  /\ UNCHANGED <<backend, log, faults, solo, group, messages>>

\* databases.getDocument(DATABASE_ID, 'groups', groupId) and the check
\* !group.isDirectChat || group.isAccepted.
LikeGetGroup(p) ==
  /\ pc[p] = "l_getGroup"
  /\ \E o \in {"ok"} \cup Thrown :
       LET out == IF o = "ok" /\ ~group.exists THEN "notfound" ELSE o
           call == Call("getDocument", "groups", FALSE, out)
       IN /\ Fault(o)
          /\ IF out # "ok"
               THEN /\ Step(p, "done", loc[p], call)
                    /\ Respond(p, LikeResponse(FALSE, "Internal server error"))
             ELSE IF ~group.isDirectChat \/ group.isAccepted
               THEN /\ Step(p, "done", loc[p], call)
                    /\ Respond(p, LikeResponse(FALSE,
                                    "This is not a pending like notification"))
             ELSE /\ Step(p, IF req[p].handler = "accept" THEN "l_update"
                                                           ELSE "l_delete",
                          loc[p], call)
                  /\ UNCHANGED resp
  /\ UNCHANGED <<backend, req>>

\* databases.updateDocument(DATABASE_ID, 'groups', groupId, {isAccepted: true,
\* ...}) and the success response of acceptLikeNotification.
AcceptUpdate(p) ==
  /\ pc[p] = "l_update"
  /\ \E o \in {"ok"} \cup Thrown :
       LET out == IF o = "ok" /\ ~group.exists THEN "notfound" ELSE o
       IN /\ Fault(o)
          /\ group' = IF out = "ok"
                        THEN [group EXCEPT !.isAccepted = TRUE,
                                           !.writers = Append(@, p)]
                        ELSE group
          /\ log' = [log EXCEPT ![p] =
                       Append(@, Call("updateDocument", "groups", FALSE, out))]
          /\ pc' = [pc EXCEPT ![p] = "done"]
          /\ Respond(p, IF out = "ok"
                          THEN LikeResponse(TRUE, "Match accepted! You can now chat.")
                          ELSE LikeResponse(FALSE, "Internal server error"))
  /\ UNCHANGED <<backend, req, loc, solo, messages>>

\* databases.deleteDocument(DATABASE_ID, 'groups', groupId)
IgnoreDeleteGroup(p) ==
  /\ pc[p] = "l_delete"
  /\ \E o \in {"ok"} \cup Thrown :
       LET out == IF o = "ok" /\ ~group.exists THEN "notfound" ELSE o
       IN /\ Fault(o)
          /\ group' = IF out = "ok"
                        THEN [group EXCEPT !.exists = FALSE,
                                           !.writers = Append(@, p)]
                        ELSE group
          /\ log' = [log EXCEPT ![p] =
                       Append(@, Call("deleteDocument", "groups", FALSE, out))]
          /\ IF out = "ok"
               THEN /\ pc' = [pc EXCEPT ![p] = "l_listMessages"]
                    /\ UNCHANGED resp
               ELSE /\ pc' = [pc EXCEPT ![p] = "done"]
                    /\ Respond(p, LikeResponse(FALSE, "Internal server error"))
  /\ UNCHANGED <<backend, req, loc, solo, messages>>

\* databases.listDocuments(DATABASE_ID, 'chatMessages',
\* [Query.equal('groupsId', groupId)])
IgnoreListMessages(p) ==
  /\ pc[p] = "l_listMessages"
  /\ \E out \in {"ok"} \cup Thrown :
       LET found == SelectSeq(<<"m1", "m2">>, LAMBDA m : m \in messages)
           call == Call("listDocuments", "chatMessages", FALSE, out)
       IN /\ Fault(out)
          /\ IF out # "ok"
               THEN /\ Step(p, "done", loc[p], call)
                    /\ Respond(p, LikeResponse(FALSE, "Internal server error"))
             ELSE IF Len(found) = 0
               THEN /\ Step(p, "done", loc[p], call)
                    /\ Respond(p, LikeResponse(TRUE,
                                    "Like notification ignored and deleted"))
             ELSE /\ Step(p, "l_deleteMessage", [loc[p] EXCEPT !.todo = found], call)
                  /\ UNCHANGED resp
  /\ UNCHANGED <<backend, req>>

\* One round of the loop over messages.documents: deleteDocument on the next
\* message; an error ends the handler in its catch.
IgnoreDeleteMessage(p) ==
  /\ pc[p] = "l_deleteMessage"
  /\ \E o \in {"ok"} \cup Thrown :
       LET m == Head(loc[p].todo)
           out == IF o = "ok" /\ m \notin messages THEN "notfound" ELSE o
           rest == Tail(loc[p].todo)
       IN /\ Fault(o)
          /\ messages' = IF out = "ok" THEN messages \ {m} ELSE messages
          /\ log' = [log EXCEPT ![p] =
                       Append(@, Call("deleteDocument", "chatMessages", FALSE, out))]
          /\ loc' = [loc EXCEPT ![p].todo = rest]
          /\ IF out # "ok"
               THEN /\ pc' = [pc EXCEPT ![p] = "done"]
                    /\ Respond(p, LikeResponse(FALSE, "Internal server error"))
             ELSE IF Len(rest) = 0
               THEN /\ pc' = [pc EXCEPT ![p] = "done"]
                    /\ Respond(p, LikeResponse(TRUE,
                                    "Like notification ignored and deleted"))
             ELSE UNCHANGED <<pc, resp>>
  /\ UNCHANGED <<backend, req, solo, group>>

\* ------------------------------------------------------------- properties
Done(p) == pc[p] = "done"
IsSignup(p) == req[p].handler = "signup"
IsAtomic(p) == req[p].handler = "atomic"
IsNative(p) == req[p].handler = "v2" /\ req[p].sdkTx
IsFallback(p) == req[p].handler = "v2" /\ ~req[p].sdkTx
IsBooking(p) == IsAtomic(p) \/ IsNative(p) \/ IsFallback(p)

\* Documents and files created by invocation p that are in the store.
OwnUser(p) == \E u \in Range(users) : u.by = p
OwnFile(p, b) == \E f \in files : f.by = p /\ f.bucket = b
OwnTicket(p) == \E d \in Range(tickets) : d.by = p
OwnTransaction(p) == \E d \in Range(transactions) : d.by = p
OwnOrder(p) == \E d \in Range(orders) : d.by = p

\* What invocation p asked of the backend, from its call log.
Issued(p, ops) == \E i \in 1..Len(log[p]) : log[p][i].op \in ops
Succeeded(p, op, on) ==
  \E i \in 1..Len(log[p]) :
    log[p][i].op = op /\ log[p][i].on = on /\ log[p][i].res = "ok"

\* C1: once the signup handler has responded, either the response is
\* success:true and the user document, the profile picture and the QR file
\* all exist, or it is success:false and none of the three created by this
\* invocation exists, whichever backend calls failed.
C1_SignupAllOrNothing ==
  \A p \in Procs : (Done(p) /\ IsSignup(p)) =>
     \/ resp[p].success /\ OwnUser(p) /\ OwnFile(p, "pic") /\ OwnFile(p, "qr")
     \/ ~resp[p].success /\ ~OwnUser(p) /\ ~OwnFile(p, "pic") /\ ~OwnFile(p, "qr")

\* C2: once bookWithOptimisticLocking has responded, either the ticket,
\* transaction and order documents all exist and the event inventory has been
\* decremented by it, or none of its documents exists and it has not written
\* the event, whichever backend calls failed.
C2_FallbackAllOrNothing ==
  \A p \in Procs : (Done(p) /\ IsFallback(p)) =>
     \/ OwnTicket(p) /\ OwnTransaction(p) /\ OwnOrder(p) /\ p \in event.writers
     \/ ~OwnTicket(p) /\ ~OwnTransaction(p) /\ ~OwnOrder(p) /\ p \notin event.writers

\* C3: in every handler a success:true response comes only after the commit
\* (native) or all four writes (fallback) succeeded, in an invocation that
\* issued no rollback request and no compensating delete; and a success:false
\* response never comes from an invocation whose commit succeeded.
C3_NoSilentPartialState ==
  \A p \in Procs : Done(p) =>
     /\ resp[p].success =>
          /\ IF IsFallback(p)
               THEN /\ Succeeded(p, "createDocument", "tickets")
                    /\ Succeeded(p, "createDocument", "transactions")
                    /\ Succeeded(p, "createDocument", "orders")
                    /\ Succeeded(p, "updateDocument", "events")
               ELSE Succeeded(p, "commit", "")
          /\ ~Issued(p, {"rollback", "deleteDocument", "deleteFile"})
     /\ ~resp[p].success => ~Succeeded(p, "commit", "")

\* One invocation answered success after its commit; the other one's commit
\* was refused, it asked for a rollback and answered success:false.
C3_Witness ==
  \E p, q \in Procs :
     /\ Done(p) /\ resp[p].success /\ Succeeded(p, "commit", "")
     /\ Done(q) /\ ~resp[q].success /\ Issued(q, {"commit"}) /\ Issued(q, {"rollback"})

\* The invocations that answered success:true.
Successes == {p \in Procs : Done(p) /\ resp[p].success}

\* Two bookTicketAtomic invocations with different payment ids have both
\* answered a request for the last ticket, on an event whose categories are
\* in the format bookTicketAtomic parses.
AtomicRace ==
  /\ \A p \in Procs :
       Done(p) /\ IsAtomic(p) /\ parseInt(req[p].quantity) = JsInt(InitTickets)
  /\ req[1].paymentId # req[2].paymentId
  /\ event.fmt = "array"
  /\ faults = DuoFaults

C5_FallbackLastUnit ==
  ( /\ \A p \in Procs :
         Done(p) /\ IsFallback(p) /\ parseInt(req[p].quantity) = JsInt(InitTickets)
    /\ req[1].paymentId # req[2].paymentId
    /\ event.fmt = "json"
    /\ faults = DuoFaults ) =>
    /\ Cardinality(Successes) = 1
    /\ \A p \in Procs \ Successes :
         /\ resp[p].code \in {"CONFLICT_ERROR", V2ErrorCode("conflict"),
                              "INSUFFICIENT_TICKETS"}
         /\ ~OwnTicket(p) /\ ~OwnTransaction(p) /\ ~OwnOrder(p)
    /\ event.writers = Successes
    /\ event.ticketsLeft = JsInt(0)

\* A quantity that does not parse to an integer in 1..10.
QuantityOutOfRange(raw) ==
  LET q == parseInt(raw) IN q.nan \/ q.n < 1 \/ q.n > 10

\* C6: after a booking with payment id P succeeded, a later booking with the
\* same P through any of the three paths creates no document, leaves the
\* inventory alone and answers DUPLICATE_PAYMENT with existingTicketId equal
\* to the first booking's ticket id.
C6_SequentialIdempotency ==
  (/\ solo /\ Done(2) /\ IsBooking(1) /\ IsBooking(2)
   /\ resp[1].success
   /\ req[1].missing = "none" /\ ~QuantityOutOfRange(req[1].quantity)
   /\ req[2].paymentId = req[1].paymentId
   /\ \A i \in 1..Len(log[2]) : log[2][i].res = "ok") =>
    /\ ~OwnTicket(2) /\ ~OwnTransaction(2) /\ ~OwnOrder(2)
    /\ 2 \notin event.writers
    /\ ~resp[2].success
    /\ resp[2].code = "DUPLICATE_PAYMENT"
    /\ resp[2].hasExistingTicketId
    /\ \A d \in Range(tickets) : d.by = 1 => resp[2].existingTicketId = d.id

\* C7: of two concurrent bookings with the same payment id at most one
\* transactions document with that paymentId is persisted and at most one
\* invocation answers success:true.
C7_ConcurrentIdempotency ==
  (/\ \A p \in Procs : Done(p) /\ IsBooking(p)
   /\ req[1].paymentId = req[2].paymentId
   /\ faults = DuoFaults) =>
    /\ Cardinality({i \in 1..Len(transactions) :
                      transactions[i].paymentId = req[1].paymentId}) <= 1
    /\ Cardinality(Successes) <= 1

\* C8: of two such signups at most one user document is committed, the
\* loser answers success:false with DUPLICATE_USER, DUPLICATE_EMAIL or
\* CONFLICT_ERROR, and every file it uploaded is deleted.
C8_ConcurrentSignup ==
  ( /\ \A p \in Procs : Done(p) /\ IsSignup(p)
    /\ \/ req[1].email = req[2].email /\ req[1].userId # req[2].userId
       \/ req[1].userId = req[2].userId
    /\ faults = DuoFaults ) =>
    /\ Cardinality({p \in Procs : OwnUser(p)}) <= 1
    /\ Cardinality(Successes) <= 1
    /\ \A p \in Procs \ Successes :
         /\ resp[p].code \in {"DUPLICATE_USER", "DUPLICATE_EMAIL", "CONFLICT_ERROR"}
         /\ ~OwnFile(p, "pic") /\ ~OwnFile(p, "qr")

C10_QuantityBound ==
  /\ \A p \in Procs :
       (/\ Done(p) /\ IsBooking(p) /\ req[p].body = "ok" /\ req[p].missing = "none"
        /\ QuantityOutOfRange(req[p].quantity)) =>
         resp[p].code = "INVALID_QUANTITY" /\ log[p] = <<>>
  /\ \A d \in Range(tickets) : ~QuantityOutOfRange(d.quantity)
  /\ ~event.ticketsLeft.nan /\ event.ticketsLeft.n <= SoloTickets

\* The collections of the calls op that invocation p issued, in order;
\* with okOnly, of those that returned.
CallTargets(p, op, okOnly) ==
  LET hits == SelectSeq(log[p], LAMBDA c : c.op = op /\ (~okOnly \/ c.res = "ok"))
  IN [i \in 1..Len(hits) |-> hits[i].on]

\* C11: when bookWithOptimisticLocking fails after k of its documents were
\* created, k in 0..3, it has attempted exactly k deletes, one per created
\* document, in reverse order of creation.
C11_FallbackCompensationComplete ==
  \A p \in Procs : (Done(p) /\ IsFallback(p) /\ ~resp[p].success) =>
     LET deleted == CallTargets(p, "deleteDocument", FALSE)
         created == CallTargets(p, "createDocument", TRUE)
     IN /\ Len(deleted) = Len(created)
        /\ \A i \in 1..Len(deleted) : deleted[i] = created[Len(created) + 1 - i]

\* A fallback booking failed after its three creates and walked all of them.
C11_Witness ==
  \E p \in Procs :
     /\ Done(p) /\ IsFallback(p) /\ ~resp[p].success
     /\ CallTargets(p, "deleteDocument", FALSE) = <<"orders", "transactions", "tickets">>

\* The positions in the call log of invocation p of the calls op on target on.
CallsAt(p, op, on) ==
  {i \in 1..Len(log[p]) : log[p][i].op = op /\ log[p][i].on = on}

\* C12: when signup fails after both files were uploaded and the context was
\* opened, the undo actions are issued in reverse order of creation: the
\* rollback first, then the delete of the QR file, then the delete of the
\* profile picture.
C12_SignupReverseOrder ==
  \A p \in Procs :
     ( /\ Done(p) /\ IsSignup(p) /\ ~resp[p].success
       /\ Succeeded(p, "createFile", "pic")
       /\ Succeeded(p, "createFile", "qr")
       /\ Succeeded(p, "createTransaction", "") ) =>
     /\ CallsAt(p, "rollback", "") # {}
     /\ CallsAt(p, "deleteFile", "qr") # {}
     /\ CallsAt(p, "deleteFile", "pic") # {}
     /\ \A r \in CallsAt(p, "rollback", "") :
        \A q \in CallsAt(p, "deleteFile", "qr") :
        \A c \in CallsAt(p, "deleteFile", "pic") : r < q /\ q < c

\* C13: in signup and in the fallback booking, the failure of one undo action
\* (a document delete, the rollback, a file delete) does not prevent the other
\* undo actions from being attempted, and the handler still answers with a
\* failure.
C13_BestEffortCompensation ==
  \A p \in Procs :
     LET UndoFailed ==
           \E i \in 1..Len(log[p]) :
             /\ log[p][i].op \in {"rollback", "deleteFile", "deleteDocument"}
             /\ log[p][i].res # "ok"
         EveryUndoAttempted ==
           /\ \A b \in {"pic", "qr"} :
                Succeeded(p, "createFile", b) => CallsAt(p, "deleteFile", b) # {}
           /\ \A c \in {"tickets", "transactions", "orders"} :
                (\E i \in 1..Len(log[p]) :
                    log[p][i] = Call("createDocument", c, FALSE, "ok"))
                   => CallsAt(p, "deleteDocument", c) # {}
           /\ Succeeded(p, "createTransaction", "") => CallsAt(p, "rollback", "") # {}
     IN (Done(p) /\ (IsSignup(p) \/ IsFallback(p)) /\ UndoFailed) =>
           ~resp[p].success /\ EveryUndoAttempted

\* A signup whose rollback and profile-picture delete both threw and that went
\* on to the delete of the QR file.
C13_Witness ==
  \E p \in Procs :
     /\ Done(p) /\ IsSignup(p) /\ ~resp[p].success
     /\ \E r \in CallsAt(p, "rollback", "") : log[p][r].res # "ok"
     /\ \E c \in CallsAt(p, "deleteFile", "pic") :
          /\ log[p][c].res # "ok"
          /\ \E q \in CallsAt(p, "deleteFile", "qr") : q > c

\* C14: every failure response of a signup or of a fallback booking in which
\* at least one undo action ran (a rollback, a file delete, a document delete)
\* carries a rollbackStatus field.
C14_RollbackStatusPresent ==
  \A p \in Procs :
     ( /\ Done(p) /\ (IsSignup(p) \/ IsFallback(p)) /\ ~resp[p].success
       /\ Issued(p, {"rollback", "deleteFile", "deleteDocument"}) )
     => resp[p].hasRS

\* C15: no failure response marks a resource as cleaned up or rolled back (an
\* entry of cleanedUp, a true value in rollbackStatus, transactionRolledBack:
\* true) unless the delete or rollback call for that resource returned.
C15_CleanupFailuresNotReportedClean ==
  \A p \in Procs : (Done(p) /\ ~resp[p].success) =>
     /\ ("profilePicture" \in resp[p].cleanedUp \/ (resp[p].hasRS /\ resp[p].rs.profilePicture))
           => Succeeded(p, "deleteFile", "pic")
     /\ ("qrCode" \in resp[p].cleanedUp \/ (resp[p].hasRS /\ resp[p].rs.qrCode))
           => Succeeded(p, "deleteFile", "qr")
     /\ ("transaction" \in resp[p].cleanedUp \/ (resp[p].hasRS /\ resp[p].rs.transaction))
           => Succeeded(p, "rollback", "")
     /\ resp[p].trb = "true" => Succeeded(p, "rollback", "")

\* C16: every signup that ends with success:false after at least one of its
\* uploads returned has attempted a delete for each file it uploaded, wherever
\* the failure happened.
C16_UploadsCompensated ==
  \A p \in Procs : (Done(p) /\ IsSignup(p) /\ ~resp[p].success) =>
     \A b \in {"pic", "qr"} :
        \A u \in CallsAt(p, "createFile", b) :
           log[p][u].res = "ok" => \E d \in CallsAt(p, "deleteFile", b) : d > u

\* A signup that failed at commit, after both uploads, and attempted both
\* deletes.
C16_Witness ==
  \E p \in Procs :
     /\ Done(p) /\ IsSignup(p) /\ ~resp[p].success
     /\ Succeeded(p, "createFile", "pic") /\ Succeeded(p, "createFile", "qr")
     /\ \E c \in CallsAt(p, "commit", "") : log[p][c].res # "ok"
     /\ CallsAt(p, "deleteFile", "pic") # {} /\ CallsAt(p, "deleteFile", "qr") # {}

\* C17: when the duplicate check of a signup finds a user document with the
\* same id the response code is DUPLICATE_USER, and with the same email it is
\* DUPLICATE_EMAIL; by then the rollback has been requested, deletes of both
\* uploaded files have been attempted, and the invocation has neither staged
\* nor committed a user document.
C17_DuplicateRolledBackFirst ==
  \A p \in Procs :
     LET FoundSameId == Succeeded(p, "getDocument", "users")
         FoundSameEmail == loc[p].existing # ""
     IN (Done(p) /\ IsSignup(p) /\ (FoundSameId \/ FoundSameEmail)) =>
     /\ FoundSameId => resp[p].code = "DUPLICATE_USER"
     /\ (~FoundSameId /\ FoundSameEmail) => resp[p].code = "DUPLICATE_EMAIL"
     /\ CallsAt(p, "rollback", "") # {}
     /\ CallsAt(p, "deleteFile", "pic") # {}
     /\ CallsAt(p, "deleteFile", "qr") # {}
     /\ CallsAt(p, "createDocument", "users") = {}
     /\ ~OwnUser(p)

\* C18: a signup request repeated unchanged after it succeeded fails with code
\* DUPLICATE_EMAIL, creates no document, and leaves no file uploaded by the
\* second attempt (no backend call failing for a reason of its own).
C18_RepeatedSignup ==
  ( /\ solo /\ Done(1) /\ Done(2) /\ IsSignup(1) /\ resp[1].success
    /\ req[2] = req[1] /\ faults = SoloFaults )
  => /\ ~resp[2].success
     /\ resp[2].code = "DUPLICATE_EMAIL"
     /\ ~OwnUser(2)
     /\ ~OwnFile(2, "pic") /\ ~OwnFile(2, "qr")

\* The handlers that work through a transaction context.
IsNativeMode(p) == IsAtomic(p) \/ IsNative(p) \/ IsSignup(p)

\* Call i of invocation p, other than a file delete of the cleanup, threw
\* after the context of p had been created.
ThrewInContext(p, i) ==
  /\ log[p][i].res # "ok"
  /\ log[p][i].op # "deleteFile"
  /\ \E j \in CallsAt(p, "createTransaction", "") : j < i /\ log[p][j].res = "ok"

\* C19: in bookTicketAtomic, bookWithTransactions and signup, when a backend
\* call throws after the context was created and the handler answers with a
\* failure, a rollback of the context has been requested from that call on;
\* when no context was created, no rollback is requested.
C19_RollbackOnThrownError ==
  \A p \in Procs : (Done(p) /\ IsNativeMode(p) /\ ~resp[p].success) =>
     /\ \A i \in 1..Len(log[p]) :
          ThrewInContext(p, i) => \E r \in CallsAt(p, "rollback", "") : r >= i
     /\ ~Succeeded(p, "createTransaction", "") => CallsAt(p, "rollback", "") = {}

\* A booking through bookTicketAtomic whose commit threw and was followed by
\* a rollback request.
C19_Witness ==
  \E p \in Procs :
     /\ Done(p) /\ IsAtomic(p) /\ ~resp[p].success
     /\ \E c \in CallsAt(p, "commit", "") :
          /\ ThrewInContext(p, c)
          /\ \E r \in CallsAt(p, "rollback", "") : r > c

\* Nothing that invocation p staged is in the store.
NothingVisible(p) ==
  /\ ~OwnUser(p) /\ ~OwnTicket(p) /\ ~OwnTransaction(p) /\ ~OwnOrder(p)
  /\ p \notin event.writers

\* The context of invocation p has expired.
Expired(p) == txns[p].state = "expired"

\* C20: once the context of a booking or signup has expired before its commit,
\* it stays expired, every later call against it is rejected (the commit
\* included), nothing it staged becomes visible, and the handler does not
\* answer success.
C20_ExpiryBehavesAsRollback ==
  /\ [](\A p \in Procs : Expired(p) => ~resp[p].success /\ NothingVisible(p))
  /\ [][\A p \in Procs : Expired(p) =>
          /\ Expired(p)'
          /\ (Len(log'[p]) = Len(log[p]) + 1 /\ log'[p][Len(log'[p])].tx)
               => log'[p][Len(log'[p])].res # "ok"]_vars

\* An invocation that staged writes, saw its context expire, had its commit
\* rejected and answered.
C20_Witness ==
  \E p \in Procs :
     /\ Expired(p) /\ Done(p)
     /\ Len(txns[p].ops) > 0
     /\ \E c \in CallsAt(p, "commit", "") : log[p][c].res = "notfound"

\* C21: when the context of a signup expires after both uploads and before
\* its commit succeeded, the handler has attempted the delete of both files
\* by the time it responds, also when the rollback of the expired context
\* threw.
C21_UploadsCompensatedOnExpiry ==
  \A p \in Procs : (Done(p) /\ IsSignup(p) /\ Expired(p)) =>
     /\ ~resp[p].success
     /\ \A t \in CallsAt(p, "createTransaction", "") :
          /\ \E d \in CallsAt(p, "deleteFile", "pic") : d > t
          /\ \E d \in CallsAt(p, "deleteFile", "qr") : d > t

\* A signup whose context expired while it was open, whose rollback was
\* answered not found, and which went on to both deletes.
C21_Witness ==
  \E p \in Procs :
     /\ Done(p) /\ IsSignup(p) /\ Expired(p)
     /\ Len(txns[p].ops) > 0
     /\ \E r \in CallsAt(p, "rollback", "") :
          /\ log[p][r].res = "notfound"
          /\ \E d \in CallsAt(p, "deleteFile", "pic") : d > r
          /\ \E d \in CallsAt(p, "deleteFile", "qr") : d > r

\* C22: within one invocation no write is staged on a context, and no commit
\* of it is requested, after its rollback or commit has been requested, also
\* when the rollback was answered not found; and nothing is appended to a
\* context that has expired.
C22_TerminalStatesFinal ==
  /\ [](\A p \in Procs :
          \A e, s \in 1..Len(log[p]) :
             ( /\ log[p][e].op \in {"rollback", "commit"}
               /\ log[p][s].tx
               /\ log[p][s].op \in {"createDocument", "updateDocument", "commit"} )
             => s <= e)
  /\ [][\A p \in Procs : Expired(p) => txns'[p].ops = txns[p].ops]_vars

\* C23: an invocation of the v2 entry point runs the native path if and only
\* if the SDK has createTransaction, and the fallback path otherwise; it runs
\* one of the two only, and the choice stays the same for the whole invocation.
C23_ModeSelection ==
  /\ [](\A p \in Procs : req[p].handler = "v2" =>
          /\ pc[p] \in {"n_createTx", "n_getEvent", "n_insuffRb", "n_listPay",
                        "n_dupPayRb", "n_createTicket", "n_createTxnDoc",
                        "n_createOrder", "n_updateEvent", "n_commit", "n_catchRb"}
               => req[p].sdkTx
          /\ pc[p] \in {"f_getEvent", "f_listPay", "f_createTicket", "f_createTxnDoc",
                        "f_createOrder", "f_updateEvent", "f_delete"}
               => ~req[p].sdkTx
          /\ \A i \in 1..Len(log[p]) :
               LET c == log[p][i]
               IN /\ (c.op \in {"createTransaction", "commit", "rollback"} \/ c.tx)
                       => req[p].sdkTx
                  /\ (~c.tx /\ c.op \in {"createDocument", "updateDocument",
                                          "deleteDocument"})
                       => ~req[p].sdkTx
          /\ (log[p] # <<>> /\ req[p].sdkTx) => log[p][1].op = "createTransaction"
          /\ (log[p] # <<>> /\ ~req[p].sdkTx) =>
               log[p][1] \in {Call("getDocument", "events", FALSE, r) : r \in {"ok"} \cup ErrKinds})
  /\ [][\A p \in Procs : req[p].handler = "v2" => req'[p] = req[p]]_vars

\* One invocation went through the native path and another one through the
\* fallback path, each to its response.
C23_Witness ==
  \E p, q \in Procs :
     /\ Done(p) /\ IsNative(p) /\ \E i \in 1..Len(log[p]) : log[p][i].op = "commit"
     /\ Done(q) /\ IsFallback(q) /\ CallsAt(q, "updateDocument", "events") # {}

\* C24: in bookTicketAtomic, bookWithTransactions and signup every read that
\* guards a create (payment id, ticket id, user id, email) and the read of the
\* event are made inside the transaction context of the invocation.
C24_NativeReadsFenced ==
  \A p \in Procs : IsNativeMode(p) =>
     \A i \in 1..Len(log[p]) :
        log[p][i].op \in {"getDocument", "listDocuments"} => log[p][i].tx

\* C25: in bookWithOptimisticLocking the duplicate-payment lookup is made a
\* second time immediately before the transactions document is written: the
\* call that precedes the write is a lookup of the transactions collection,
\* and the invocation has made two lookups by then.
C25_FallbackRecheckBeforeWrite ==
  \A p \in Procs : IsFallback(p) =>
     \A w \in CallsAt(p, "createDocument", "transactions") :
        /\ w > 1 /\ log[p][w - 1].op = "listDocuments"
        /\ log[p][w - 1].on = "transactions"
        /\ \E a, b \in CallsAt(p, "listDocuments", "transactions") : a < b /\ b < w

\* The reads of the event document made by invocation p, in order.
EventReads(p) == SelectSeq(log[p], LAMBDA c : c.op = "getDocument" /\ c.on = "events")

\* C26: in bookWithOptimisticLocking a failing read of the event is retried,
\* three reads at most being made; a read that returned is never repeated
\* (INSUFFICIENT_TICKETS included); when the handler gives up on the read it
\* has made three reads, answers success:false with the last read error, and
\* has created and deleted nothing.
C26_BoundedReadRetry ==
  \A p \in Procs : IsFallback(p) =>
     LET reads == EventReads(p)
     IN /\ Len(reads) <= 3
        /\ \A i \in 1..Len(reads) : reads[i].res = "ok" => i = Len(reads)
        /\ (Done(p) /\ resp[p].code = "INSUFFICIENT_TICKETS") =>
              /\ Len(reads) >= 1 /\ reads[Len(reads)].res = "ok"
              /\ Len(log[p]) = Len(reads)
        /\ (Done(p) /\ Len(reads) >= 1 /\ reads[Len(reads)].res # "ok") =>
              /\ Len(reads) = 3
              /\ Len(log[p]) = 3
              /\ ~resp[p].success
              /\ resp[p].code = V2ErrorCode(reads[3].res)
              /\ ~OwnTicket(p) /\ ~OwnTransaction(p) /\ ~OwnOrder(p)

\* A fallback booking gave up after three failed reads of the event.
C26_Witness ==
  \E p \in Procs :
     /\ Done(p) /\ IsFallback(p) /\ ~resp[p].success
     /\ Len(EventReads(p)) = 3
     /\ \A i \in 1..3 : EventReads(p)[i].res # "ok"

\* C27: when bookTicketAtomic, bookWithTransactions or signup returns its
\* response, the commit or the rollback of the context it created has been
\* requested, on the INSUFFICIENT_TICKETS and TICKET_TYPE_UNAVAILABLE paths
\* too.
C27_NoContextLeftOpen ==
  \A p \in Procs :
     (Done(p) /\ IsNativeMode(p) /\ Succeeded(p, "createTransaction", ""))
     => Issued(p, {"commit", "rollback"})

\* In this step booking p reads the event and the ticketsLeft it reads is
\* smaller than the quantity it asks for.
ReadsInsufficient(p) ==
  /\ IsBooking(p)
  /\ Len(log'[p]) = Len(log[p]) + 1
  /\ LET c == log'[p][Len(log'[p])]
     IN c.op = "getDocument" /\ c.on = "events" /\ c.res = "ok"
  /\ LET left == IF event.ticketsLeft.nan THEN 0 ELSE event.ticketsLeft.n
         q == parseInt(req[p].quantity)
     IN ~q.nan /\ left < q.n

\* Booking p answered INSUFFICIENT_TICKETS.
RejectedInsufficient(p) ==
  Done(p) /\ ~resp[p].success /\ resp[p].code = "INSUFFICIENT_TICKETS"

\* bookWithTransactions went from its event read to the rollback of the
\* insufficient-tickets branch.
NativeInsufficientPath(p) ==
  /\ IsNative(p) /\ Len(log[p]) >= 3
  /\ log[p][2] = Call("getDocument", "events", TRUE, "ok")
  /\ log[p][3].op = "rollback"

C29_InventoryConservation ==
  LET Sold[k \in 0..Len(tickets)] ==
        IF k = 0 THEN 0 ELSE Sold[k - 1] + parseInt(tickets[k].quantity).n
      SoldQuantity == Sold[Len(tickets)]
  IN
  ( /\ ~solo /\ faults = DuoFaults
    /\ \A p \in Procs : Done(p) /\ IsBooking(p) )
  => /\ ~event.ticketsLeft.nan
     /\ event.ticketsLeft.n = InitTickets - SoldQuantity
     /\ SoldQuantity <= InitTickets
     /\ event.ticketsLeft.n >= 0

\* In this step bookTicketAtomic p reads the event.
ReadsEvent(p) ==
  /\ IsAtomic(p)
  /\ Len(log'[p]) = Len(log[p]) + 1
  /\ log'[p][Len(log'[p])] = Call("getDocument", "events", TRUE, "ok")

\* The categories of the event have no entry with the requested name, or the
\* first such entry holds less than the requested quantity (entries with
\* fewer than three fields are passed over).
TypeShort(p) ==
  LET cats == event.categories
      named(i) == cats[i].parts >= 3 /\ cats[i].name = req[p].ticketTypeName
      q == parseInt(req[p].quantity).n
  IN \A i \in 1..Len(cats) :
        (named(i) /\ \A j \in 1..(i - 1) : ~named(j)) =>
           (IF cats[i].qty.nan THEN 0 ELSE cats[i].qty.n) < q

\* The event read in this step has fewer tickets left than p asks for.
LeftShort(p) ==
  (IF event.ticketsLeft.nan THEN 0 ELSE event.ticketsLeft.n)
     < parseInt(req[p].quantity).n

\* The step ends the invocation with the given code and writes nothing.
AnswersAtOnce(p, code) ==
  /\ pc'[p] = "done" /\ ~resp'[p].success /\ resp'[p].code = code
  /\ tickets' = tickets /\ transactions' = transactions
  /\ orders' = orders /\ event' = event
  /\ txns'[p].ops = <<>>

\* C30: when bookTicketAtomic reads an event whose categories have no entry
\* named ticketTypeName, or whose first such entry holds less than the
\* requested quantity, it answers success:false with TICKET_TYPE_UNAVAILABLE
\* and persists nothing; only the first entry with that name is consulted.
C30_TicketTypeAvailability ==
  [][\A p \in Procs : ReadsEvent(p) =>
       /\ TypeShort(p) => AnswersAtOnce(p, "TICKET_TYPE_UNAVAILABLE")
       /\ ~TypeShort(p) => resp'[p].code # "TICKET_TYPE_UNAVAILABLE"]_vars

\* C30 as amended: the same once ticketsLeft covers the requested quantity,
\* entries with fewer than three fields being passed over; when ticketsLeft
\* is smaller than the quantity the answer is INSUFFICIENT_TICKETS whatever
\* the categories hold.
C30_TicketTypeAvailabilityAmended ==
  [][\A p \in Procs : ReadsEvent(p) =>
       /\ LeftShort(p) => AnswersAtOnce(p, "INSUFFICIENT_TICKETS")
       /\ (~LeftShort(p) /\ TypeShort(p)) => AnswersAtOnce(p, "TICKET_TYPE_UNAVAILABLE")
       /\ (~LeftShort(p) /\ ~TypeShort(p)) =>
            pc'[p] \in {"a_getTicket", "a_createTicket"}]_vars

\* A booking of two tickets was refused with TICKET_TYPE_UNAVAILABLE on an
\* event whose first entry of that name holds one and whose second holds two.
C30_Witness ==
  \E p \in Procs :
     /\ Done(p) /\ IsAtomic(p) /\ resp[p].code = "TICKET_TYPE_UNAVAILABLE"
     /\ req[p].ticketTypeName = "VIP" /\ req[p].quantity = "2"
     /\ event.categories = <<Category("VIP", 4, 1), Category("VIP", 4, 2)>>

\* C31: the commit of a successful bookTicketAtomic booking of quantity q for
\* ticket type T lowers ticketsLeft by q and the quantity of the category
\* entry that passed the availability check (the first entry named T) by q,
\* and leaves every other category entry as it was.
C31_CountsMoveTogether ==
  [][\A p \in Procs :
       ( /\ IsAtomic(p)
         /\ Len(log'[p]) = Len(log[p]) + 1
         /\ log'[p][Len(log'[p])] = Call("commit", "", TRUE, "ok") ) =>
       LET q == parseInt(req[p].quantity).n
           cats == event.categories
           named == {i \in 1..Len(cats) :
                       cats[i].parts >= 3 /\ cats[i].name = req[p].ticketTypeName}
           first == CHOOSE i \in named : \A j \in named : i <= j
       IN /\ event'.ticketsLeft = JsInt(event.ticketsLeft.n - q)
          /\ named # {}
          /\ Len(event'.categories) = Len(cats)
          /\ event'.categories[first].qty = JsInt(cats[first].qty.n - q)
          /\ \A j \in 1..Len(cats) :
               j # first => event'.categories[j] = cats[j]]_vars

\* C32: when bookTicketAtomic finds a ticket document under the ticket id
\* supplied by the client, it requests the rollback of its context, answers
\* success:false with DUPLICATE_TICKET_ID, stages and persists no document and
\* leaves the existing ticket alone; when the read is answered not found, the
\* next call stages the ticket under the supplied id; any other read error
\* fails the booking.
C32_ClientTicketIdChecked ==
  \A p \in Procs : (IsAtomic(p) /\ req[p].ticketId # NoTicket) =>
     \A g \in CallsAt(p, "getDocument", "tickets") :
        /\ (log[p][g].res = "ok" /\ Len(log[p]) > g) =>
              /\ log[p][g + 1].op = "rollback"
              /\ CallsAt(p, "createDocument", "tickets") = {}
              /\ txns[p].ops = <<>>
              /\ NothingVisible(p)
              /\ Cardinality({i \in 1..Len(tickets) : tickets[i].id = req[p].ticketId}) = 1
              /\ Done(p) => ~resp[p].success /\ resp[p].code = "DUPLICATE_TICKET_ID"
        /\ (log[p][g].res = "notfound" /\ Len(log[p]) > g) =>
              /\ log[p][g + 1].op = "createDocument" /\ log[p][g + 1].on = "tickets"
              /\ loc[p].ticketId = req[p].ticketId
        /\ log[p][g].res \in {"conflict", "other"} =>
              /\ CallsAt(p, "createDocument", "tickets") = {}
              /\ Done(p) => ~resp[p].success

\* C33: in bookTicketAtomic, signup and bookWithTransactions, when the commit
\* is rejected with a conflict (error code 409), a rollback is attempted after
\* it and the response is success:false with code CONFLICT_ERROR.
C33_CommitConflictSurfaces ==
  \A p \in Procs : (Done(p) /\ IsNativeMode(p)) =>
     \A c \in CallsAt(p, "commit", "") :
        log[p][c].res = "conflict" =>
           /\ \E r \in CallsAt(p, "rollback", "") : r > c
           /\ ~resp[p].success
           /\ resp[p].code = "CONFLICT_ERROR"

\* C34: every DUPLICATE_PAYMENT response, on each of the three booking paths,
\* carries the ticket id of the transaction document that holds the payment
\* id; a DUPLICATE_USER response carries the id of the existing user document
\* and a DUPLICATE_EMAIL response the id of the user that holds the email.
C34_DuplicateCarriesIdentifier ==
  \A p \in Procs : (Done(p) /\ ~resp[p].success) =>
     /\ resp[p].code = "DUPLICATE_PAYMENT" =>
          /\ resp[p].hasExistingTicketId
          /\ \E d \in Range(transactions) :
               d.paymentId = req[p].paymentId /\ d.ticketId = resp[p].existingTicketId
     /\ resp[p].code = "DUPLICATE_USER" =>
          /\ resp[p].existingUserId = req[p].userId
          /\ \E u \in Range(users) : u.id = resp[p].existingUserId
     /\ resp[p].code = "DUPLICATE_EMAIL" =>
          \E u \in Range(users) :
             u.email = req[p].email /\ u.id = resp[p].existingUserId

\* C35: a signup creates its transaction context only after the uploads of
\* the profile picture and of the QR file have both returned, issues no
\* document read or write and no commit or rollback before the context
\* exists, and never creates a context once an upload has failed.
C35_UploadThenTransact ==
  \A p \in Procs : IsSignup(p) =>
     /\ \A t \in CallsAt(p, "createTransaction", "") :
          /\ \E u \in CallsAt(p, "createFile", "pic") : u < t /\ log[p][u].res = "ok"
          /\ \E u \in CallsAt(p, "createFile", "qr") : u < t /\ log[p][u].res = "ok"
     /\ \A i \in 1..Len(log[p]) :
          log[p][i].op \in {"getDocument", "listDocuments", "createDocument",
                            "updateDocument", "commit", "rollback"}
            => \E t \in CallsAt(p, "createTransaction", "") :
                  t < i /\ log[p][t].res = "ok"
     /\ (\E i \in 1..Len(log[p]) :
            log[p][i].op = "createFile" /\ log[p][i].res # "ok")
          => /\ CallsAt(p, "createTransaction", "") = {}
             /\ txns[p] = NoTxn

\* One signup opened its context after both uploads and ran to its response;
\* another one lost its QR upload and answered without opening a context.
C35_Witness ==
  \E p, q \in Procs :
     /\ Done(p) /\ IsSignup(p) /\ CallsAt(p, "createTransaction", "") = {3}
     /\ CallsAt(p, "commit", "") # {}
     /\ Done(q) /\ IsSignup(q) /\ Succeeded(q, "createFile", "pic")
     /\ \E u \in CallsAt(q, "createFile", "qr") : log[q][u].res # "ok"
     /\ CallsAt(q, "createTransaction", "") = {}

\* C36: every compensating delete issued by signup or by the fallback booking
\* targets a file or document that the same invocation created earlier by a
\* call that returned; what a delete removes was created by the invocation
\* that issues it, and the user documents and the files and documents of
\* other invocations are never removed by it.
C36_CompensationOwnResources ==
  /\ [](\A p \in Procs : \A d \in 1..Len(log[p]) :
          log[p][d].op \in {"deleteFile", "deleteDocument"} =>
             \E c \in 1..(d - 1) :
                /\ log[p][c].op = (IF log[p][d].op = "deleteFile"
                                     THEN "createFile" ELSE "createDocument")
                /\ log[p][c].on = log[p][d].on
                /\ log[p][c].res = "ok" /\ ~log[p][c].tx)
  /\ [][\A p \in Procs :
          ( /\ Len(log'[p]) = Len(log[p]) + 1
            /\ log'[p][Len(log'[p])].op \in {"deleteFile", "deleteDocument"} ) =>
          /\ \A f \in files \ files' : f.by = p
          /\ \A d \in Range(tickets) \ Range(tickets') : d.by = p
          /\ \A d \in Range(transactions) \ Range(transactions') : d.by = p
          /\ \A d \in Range(orders) \ Range(orders') : d.by = p
          /\ users' = users /\ event' = event]_vars

\* A signup that was refused after its uploads deleted its own two files and
\* left in place the files of the signup that had succeeded before it.
C36_Witness ==
  \E p, q \in Procs :
     /\ p # q /\ Done(q) /\ IsSignup(q) /\ resp[q].success
     /\ OwnFile(q, "pic") /\ OwnFile(q, "qr")
     /\ Done(p) /\ IsSignup(p) /\ ~resp[p].success
     /\ Succeeded(p, "deleteFile", "pic") /\ Succeeded(p, "deleteFile", "qr")

\* C37: a group is accepted or deleted by the like-notification handlers only
\* while it is pending (isDirectChat true, isAccepted false); a call refused
\* as not pending has written nothing; of the accept and ignore calls made on
\* one group, in any interleaving, at most one reports success; and a group
\* that has been accepted is never deleted.
C37_LikeLifecycle ==
  /\ [][group' # group =>
          group.exists /\ group.isDirectChat /\ ~group.isAccepted]_vars
  /\ [](\A p \in Procs :
          (Done(p) /\ resp[p].message = "This is not a pending like notification")
            => /\ \A i \in 1..Len(group.writers) : group.writers[i] # p
               /\ Len(log[p]) = 1)
  /\ [](Cardinality({p \in Procs : Done(p) /\ resp[p].success}) <= 1)
  /\ [][(group.exists /\ group.isAccepted) => group'.exists]_vars

\* C38: the code of every success:false response of the booking and signup
\* handlers is one of VALIDATION_ERROR, INVALID_QUANTITY, DUPLICATE_USER,
\* DUPLICATE_EMAIL, DUPLICATE_PAYMENT, INSUFFICIENT_TICKETS,
\* TICKET_TYPE_UNAVAILABLE, CONFLICT_ERROR, NOT_FOUND_ERROR, PERMISSION_ERROR,
\* SIGNUP_ERROR, BOOKING_ERROR.
C38_ErrorCodesClosed ==
  \A p \in Procs : (Done(p) /\ (IsBooking(p) \/ IsSignup(p)) /\ ~resp[p].success) =>
     resp[p].code \in
       {"VALIDATION_ERROR", "INVALID_QUANTITY", "DUPLICATE_USER", "DUPLICATE_EMAIL",
        "DUPLICATE_PAYMENT", "INSUFFICIENT_TICKETS", "TICKET_TYPE_UNAVAILABLE",
        "CONFLICT_ERROR", "NOT_FOUND_ERROR", "PERMISSION_ERROR", "SIGNUP_ERROR",
        "BOOKING_ERROR"}

\* C39: every invocation of a booking or signup handler that has started
\* reaches its end, whichever backend calls throw (rollbacks and compensating
\* deletes included); it has answered exactly when it has ended, and after
\* that it issues no call and changes its response no more; it requests a
\* rollback three times at most (once in each duplicate branch and once in
\* the catch) and a delete once at most for each file and each document
\* collection.
C39_OneResponseAlways ==
  /\ [](\A p \in Procs :
          /\ Done(p) <=> resp[p] # RespBase
          /\ Cardinality(CallsAt(p, "rollback", "")) <= 3
          /\ \A b \in {"pic", "qr"} : Cardinality(CallsAt(p, "deleteFile", b)) <= 1
          /\ \A c \in {"tickets", "transactions", "orders"} :
               Cardinality(CallsAt(p, "deleteDocument", c)) <= 1)
  /\ [][\A p \in Procs : Done(p) =>
          pc'[p] = "done" /\ resp'[p] = resp[p] /\ log'[p] = log[p]]_vars
  /\ \A p \in Procs : (req[p].handler # "none") ~> Done(p)

\* A signup whose rollback and whose two file deletes all threw, and which
\* answered all the same.
C39_Witness ==
  \E p \in Procs :
     /\ Done(p) /\ IsSignup(p) /\ ~resp[p].success
     /\ \E r \in CallsAt(p, "rollback", "") : log[p][r].res # "ok"
     /\ \E d \in CallsAt(p, "deleteFile", "pic") : log[p][d].res # "ok"
     /\ \E d \in CallsAt(p, "deleteFile", "qr") : log[p][d].res # "ok"

\* ------------------------------------------------------------ initial state

\* The event on sale: one category holding all its tickets.  The categories
\* attribute is an array of "name:price:qty:phase" strings (what
\* bookTicketAtomic reads) or a JSON string (what bookTicketAtomic_v2 reads).
InitEvent(fmt, n) ==
  [ticketsLeft |-> JsInt(n), fmt |-> fmt,
   categories |-> <<[name |-> "VIP", parts |-> 4, qty |-> JsInt(n)]>>,
   ver |-> 0, writers |-> {}]

InitStore(n) ==
  /\ files = {}
  /\ users = <<KnownUser>>
  /\ tickets = <<>>
  /\ transactions = <<>>
  /\ orders = <<>>
  /\ event \in {InitEvent(f, n) : f \in {"array", "json"}}
  /\ txns = [p \in Procs |-> NoTxn]
  /\ req = [p \in Procs |-> [handler |-> "none"]]
  /\ loc = [p \in Procs |-> [after |-> ""]]
  /\ resp = [p \in Procs |-> RespBase]
  /\ log = [p \in Procs |-> <<>>]
  /\ group = Group(FALSE, FALSE, FALSE)
  /\ messages = {}

\* Two concurrent invocations.
Init ==
  /\ InitStore(InitTickets)
  /\ solo = FALSE
  /\ pc = [p \in Procs |-> "idle"]
  /\ faults = DuoFaults

\* One invocation with any request, then a second one if the first succeeded.
InitSolo ==
  /\ InitStore(SoloTickets)
  /\ solo = TRUE
  /\ pc = [p \in Procs |-> IF p = 1 THEN "idle" ELSE "off"]
  /\ faults = SoloFaults

\* A single invocation with any request, on a store that holds the documents
\* of an earlier booking (payment p2, ticket id supplied by the client) and an
\* event with one ticket left or with all of them.
InitOne ==
  /\ files = {}
  /\ users = <<KnownUser>>
  /\ tickets = <<[id |-> ClientTicket, quantity |-> "1", by |-> 0]>>
  /\ transactions = <<[id |-> UniqueId(0), paymentId |-> "p2",
                       ticketId |-> ClientTicket, by |-> 0]>>
  /\ orders = <<[id |-> UniqueId(0), ticketId |-> ClientTicket, by |-> 0]>>
  /\ event \in {InitEvent(f, n) : f \in {"array", "json"}, n \in {1, SoloTickets}}
  /\ txns = [p \in Procs |-> NoTxn]
  /\ req = [p \in Procs |-> [handler |-> "none"]]
  /\ loc = [p \in Procs |-> [after |-> ""]]
  /\ resp = [p \in Procs |-> RespBase]
  /\ log = [p \in Procs |-> <<>>]
  /\ group = Group(FALSE, FALSE, FALSE)
  /\ messages = {}
  /\ solo = TRUE
  /\ pc = [p \in Procs |-> IF p = 1 THEN "idle" ELSE "absent"]
  /\ faults = SoloFaults

\* bookTicketAtomic invocations, one at a time, on an event with any of these
\* category lists.
InitTypes ==
  /\ files = {}
  /\ users = <<KnownUser>>
  /\ tickets = <<>>
  /\ transactions = <<>>
  /\ orders = <<>>
  /\ event \in {[InitEvent("array", SoloTickets) EXCEPT !.categories = c] :
                  c \in CategoryLists}
  /\ txns = [p \in Procs |-> NoTxn]
  /\ req = [p \in Procs |-> [handler |-> "none"]]
  /\ loc = [p \in Procs |-> [after |-> ""]]
  /\ resp = [p \in Procs |-> RespBase]
  /\ log = [p \in Procs |-> <<>>]
  /\ group = Group(FALSE, FALSE, FALSE)
  /\ messages = {}
  /\ solo = TRUE
  /\ pc = [p \in Procs |-> IF p = 1 THEN "idle" ELSE "off"]
  /\ faults = DuoFaults

\* Two invocations of the like-notification handlers on one group, which is
\* pending, accepted already, or not a direct chat.
InitLike ==
  /\ files = {}
  /\ users = <<KnownUser>>
  /\ tickets = <<>>
  /\ transactions = <<>>
  /\ orders = <<>>
  /\ event = InitEvent("array", InitTickets)
  /\ txns = [p \in Procs |-> NoTxn]
  /\ req = [p \in Procs |-> [handler |-> "none"]]
  /\ loc = [p \in Procs |-> [todo |-> <<>>]]
  /\ resp = [p \in Procs |-> LikeResponse(FALSE, "")]
  /\ log = [p \in Procs |-> <<>>]
  /\ group \in {Group(TRUE, d, a) : d, a \in BOOLEAN}
  /\ messages \in {{}, {"m1"}, {"m1", "m2"}}
  /\ solo = FALSE
  /\ pc = [p \in Procs |-> "idle"]
  /\ faults = DuoFaults

NextSignup == \E p \in Procs : SignupStep(p) \/ Expire(p)
NextLike ==
  \E p \in Procs :
    \/ LikeStart(p)
    \/ LikeGetGroup(p)
    \/ AcceptUpdate(p)
    \/ IgnoreDeleteGroup(p)
    \/ IgnoreListMessages(p)
    \/ IgnoreDeleteMessage(p)
NextAtomic == \E p \in Procs : AtomicStep(p) \/ Expire(p)
NextV2 == \E p \in Procs : V2Step(p) \/ Expire(p)
NextBooking == \E p \in Procs : AtomicStep(p) \/ V2Step(p) \/ Expire(p)
Next == \E p \in Procs : SignupStep(p) \/ AtomicStep(p) \/ V2Step(p) \/ Expire(p)

\* Two concurrent signups.
SpecSignup == Init /\ [][NextSignup]_vars
\* Two concurrent invocations of bookTicketAtomic.
SpecAtomic == Init /\ [][NextAtomic]_vars
\* Two concurrent invocations of bookTicketAtomic_v2.
SpecV2 == Init /\ [][NextV2]_vars
\* Two concurrent bookings through any of the three paths.
SpecBooking == Init /\ [][NextBooking]_vars
\* Invocations of bookTicketAtomic that come one at a time, on various
\* category lists.
SpecTypes == InitTypes /\ [][NextAtomic]_vars
\* Two concurrent invocations of the like-notification handlers.
SpecLike == InitLike /\ [][NextLike]_vars
\* Invocations of any handler that come one at a time.
SpecSolo == InitSolo /\ [][Next]_vars
\* A single invocation of any handler, run on to its end: the runtime resumes
\* a handler whenever the call it awaits has returned or thrown.
FairOne ==
  /\ InitOne /\ [][Next]_vars
  /\ \A p \in Procs : WF_vars(SignupStep(p) \/ AtomicStep(p) \/ V2Step(p))
\* Two concurrent invocations of any handlers.
Spec == Init /\ [][Next]_vars
====
